---- MODULE Spec2Model ----
(***************************************************************************)
(* Verification model of the Rush command/phase configuration model, the  *)
(* operation graph and its scheduler, of Async.forEachAsync/mapAsync, of   *)
(* CommonVersionsConfiguration and of the parser of Git.getGitStatus.      *)
(*                                                                         *)
(* The specifications of the module:                                       *)
(*   Spec / LiveSpec / CancelLiveSpec  the operation scheduler (4.4, 5)    *)
(*   SpecAsync                         Async.forEachAsync and mapAsync     *)
(*   AsyncLiveSpec                     forEachAsync with callbacks that    *)
(*                                     are all fulfilled, under fairness   *)
(*   SpecGraph                         CommandLineConfiguration phases and *)
(*                                     the operation graph builder (4.3)   *)
(*   SpecCycle                         the phase self-dependency check     *)
(*   SpecConfig                        the commands, defaults and          *)
(*                                     parameters stages of the constructor*)
(*   SpecReferences                    references that do not resolve,     *)
(*                                     repeated names, watch phases        *)
(*   SpecNames                         the phase name validation           *)
(*   SpecLoad                          loadFromFileOrDefault               *)
(*   BuildRunSpec                      a run of build or rebuild, from the *)
(*                                     configuration to the verdict        *)
(*   SpecRegistry                      commands named like phases          *)
(*   SpecCommonVersions                CommonVersionsConfiguration         *)
(*   SpecGitStatus                     the parser of git status            *)
(* Each specification keeps the variables of the other parts at their     *)
(* idle values.                                                            *)
(***************************************************************************)
EXTENDS Integers, Sequences, FiniteSets, TLC

(***************************************************************************)
(* Bounds                                                                  *)
(***************************************************************************)
\* number of operations in the scheduled DAG
MaxOps == 3
\* largest concurrency limit tried by the scheduler
MaxParallelism == 2
\* largest number of items of the iterable given to forEachAsync
MaxItems == 3
\* largest options.concurrency given to forEachAsync
MaxConcurrency == 2
\* number of phases declared in command-line.json
MaxPhases == 2
\* largest number of dependency entries (self and upstream) over all declared phases
MaxPhaseDeps == 2
\* number of projects of the repository
MaxProjects == 2

\* largest number of commands declared in the inputs of the commands stage
MaxCommands == 2

\* largest number of commands a parameter of the inputs is associated with
MaxAssociatedCommands == 2

\* number of phases in the inputs of the self-dependency cycle check
MaxCyclePhases == 3
\* number of characters after the prefix in the inputs of the phase name validation
MaxNameLength == 4

VARIABLES
  \* ---- operation scheduler ----
  deps,            \* deps[o]: the operations o depends on (the DAG of the run)
  status,          \* status[o]: OperationStatus of o
  readySet,        \* operations whose dependencies are all satisfied, not yet dispatched
  parallelism,     \* the concurrency limit of the run
  cancelled,       \* the global cancellation flag
  hasAnyFailures,  \* the coordinator has recorded a Failure
  verdict,         \* "none" while running, then "success" | "failure" | "cancelled"
  invoked,         \* history: operations whose runner was invoked
  runs,            \* history: runs[o] is the number of invocations of the runner of o
  siblings,        \* history: operations that were Executing when another one failed
  \* ---- Async.forEachAsync ----
  asyncPc,                       \* "init" before the call, then "running"
  iterableLen,                   \* number of items the iterable yields
  optConcurrency,                \* options.concurrency: <<>> when undefined, else <<n>>
  operationsInProgress,          \* Async.ts:90
  arrayIndex,                    \* Async.ts:97
  iteratorIsComplete,            \* Async.ts:98
  promiseHasResolvedOrRejected,  \* Async.ts:99
  iterPos,                       \* the iterator: number of items it has handed out
  pendingNext,                   \* results of iterator.next() calls still awaited, oldest first
  cb,                            \* cb[i]: state of the callback for the i-th item
  cbIndex,                       \* cbIndex[i]: the arrayIndex passed to that callback, -1 before
  resolveCalls,                  \* number of calls of resolve()
  rejectCalls,                   \* number of calls of reject()
  result,                        \* Async.ts:51, the result array of mapAsync: index -> entry
  mapAsyncOutcome,               \* "pending", then "returned" or "rejected" (Async.ts:53-61)
  completed,                     \* history: the items in the order their callbacks were fulfilled
  \* ---- CommandLineConfiguration and the operation graph ----
  cfgPc,               \* "file" | "start" | "constructed" | "error" | "graph"
  commandLineJson,     \* the constructor's commandLineJson argument
  options,             \* the constructor's options argument
  config,              \* the CommandLineConfiguration instance under construction
  projectDependencies, \* project -> its direct upstream projects
  operations,          \* the operations of the graph built for one command
  operationDependencies, \* operation -> the operations it depends on
  operationConsumers,  \* operation -> the operations that depend on it
  \* ---- CommonVersionsConfiguration ----
  cvPc,                       \* "unloaded" | "loaded" | "error"
  cvFile,                     \* common-versions.json on disk: <<>> when absent, else <<json>>
  preferredVersions,          \* CommonVersionsConfiguration.ts:65
  xstitchPreferredVersions,   \* CommonVersionsConfiguration.ts:67
  allowedAlternativeVersions, \* CommonVersionsConfiguration.ts:68
  modified,                   \* CommonVersionsConfiguration.ts:69, _modified
  cvLast,                     \* history: the last operation on the instance and its outcome
  \* ---- Git.getGitStatus ----
  gitPc,                \* "idle" | "parsing" | "yielded" | "done" | "returned" | "error"
  gitConsumer,          \* the method that iterates getGitStatus()
  gitResult,            \* what the method returned: <<>> or <<value>>
  output,               \* Git.ts:474, the output of git status --porcelain=2 --null
  pos,                  \* Git.ts:502
  state,                \* Git.ts:503, the name of a GitStatusEntryState or "undefined"
  isRenamedOrCopied,    \* Git.ts:505
  isUnmerged,           \* Git.ts:506
  currentObject,        \* Git.ts:507, the fields set so far, as a Map
  yielded,              \* the entries the generator has yielded, oldest first
  gitError,             \* the message of the error thrown, NoError without one
  visitedStates,        \* history: per record begun, the states the loop went through
  statusRecords         \* history: the records the output was written from

asyncVars == <<asyncPc, iterableLen, optConcurrency, operationsInProgress, arrayIndex,
               iteratorIsComplete, promiseHasResolvedOrRejected, iterPos, pendingNext,
               cb, cbIndex, resolveCalls, rejectCalls, result, mapAsyncOutcome, completed>>

cvVars == <<cvPc, cvFile, preferredVersions, xstitchPreferredVersions,
            allowedAlternativeVersions, modified, cvLast>>

gitVars == <<gitPc, gitConsumer, gitResult, output, pos, state, isRenamedOrCopied, isUnmerged, currentObject,
             yielded, gitError, visitedStates, statusRecords>>

cfgVars == <<cfgPc, commandLineJson, options, config, projectDependencies,
             operations, operationDependencies, operationConsumers>>

schedVars == <<deps, status, readySet, parallelism, cancelled, hasAnyFailures,
               verdict, invoked, runs, siblings>>

vars == <<schedVars, asyncVars, cfgVars, cvVars, gitVars>>

(***************************************************************************)
(* Operation scheduler (spec 3, 4.4, 5)                                    *)
(***************************************************************************)
Ops == 1..MaxOps

NonBlockingTerminal == {"Success", "SuccessWithWarning", "Skipped", "NoOp", "FromCache"}

TerminalStatuses == NonBlockingTerminal \cup {"Failure", "Blocked"}

OperationStatus == {"Ready", "Executing"} \cup TerminalStatuses

\* What a runner can report for an operation it was invoked for.  Blocked is
\* never reported by a runner: a Blocked operation never executes its runner.
RunnerResults == NonBlockingTerminal \cup {"Failure"}

\* Every DAG over Ops, up to renaming: an operation depends on lower-numbered ones.
OperationDags == {d \in [Ops -> SUBSET Ops] : \A o \in Ops : d[o] \subseteq 1..(o - 1)}

RECURSIVE TransitiveDependencies(_, _)
TransitiveDependencies(d, o) ==
  d[o] \cup UNION {TransitiveDependencies(d, x) : x \in d[o]}

Consumers(d, o) == {c \in Ops : o \in d[c]}

TransitiveConsumers(d, o) == {c \in Ops : o \in TransitiveDependencies(d, c)}

Executing == {o \in Ops : status[o] = "Executing"}

\* Mutant: one satisfied dependency is taken to be enough.
IsEligibleAnyDependency(d, st, o) == \E x \in d[o] : st[x] \in NonBlockingTerminal

\* Mutant: only dependencies that actually ran to Success count as satisfied.
IsEligibleSuccessOnly(d, st, o) == \A x \in d[o] : st[x] = "Success"

\* An operation is eligible when every dependency is terminal and non-blocking.
IsEligible(d, st, o) == \A x \in d[o] : st[x] \in NonBlockingTerminal

\* The configuration variables while another part is studied.
CfgIdle ==
  /\ cfgPc = "idle"
  /\ commandLineJson = <<>>
  /\ options = <<>>
  /\ config = <<>>
  /\ projectDependencies = <<>>
  /\ operations = {}
  /\ operationDependencies = <<>>
  /\ operationConsumers = <<>>

\* The CommonVersionsConfiguration variables while another part is studied.
CvIdle ==
  /\ cvPc = "idle"
  /\ cvFile = <<>>
  /\ preferredVersions = <<>>
  /\ xstitchPreferredVersions = <<>>
  /\ allowedAlternativeVersions = <<>>
  /\ modified = FALSE
  /\ cvLast = <<>>

\* The getGitStatus variables while another part is studied.
GitIdle ==
  /\ gitPc = "idle"
  /\ gitConsumer = "none"
  /\ gitResult = <<>>
  /\ output = <<>>
  /\ pos = 0
  /\ state = "undefined"
  /\ isRenamedOrCopied = FALSE
  /\ isUnmerged = FALSE
  /\ currentObject = <<>>
  /\ yielded = <<>>
  /\ gitError = <<>>
  /\ visitedStates = <<>>
  /\ statusRecords = <<>>

\* The forEachAsync variables while another part is studied.
AsyncIdle ==
  /\ asyncPc = "idle"
  /\ iterableLen = 0
  /\ optConcurrency = <<>>
  /\ operationsInProgress = 0
  /\ arrayIndex = 0
  /\ iteratorIsComplete = FALSE
  /\ promiseHasResolvedOrRejected = FALSE
  /\ iterPos = 0
  /\ pendingNext = <<>>
  /\ cb = <<>>
  /\ cbIndex = <<>>
  /\ resolveCalls = 0
  /\ rejectCalls = 0
  /\ result = <<>>
  /\ mapAsyncOutcome = "pending"
  /\ completed = <<>>

SchedInit ==
  /\ AsyncIdle
  /\ CvIdle
  /\ GitIdle
  /\ CfgIdle
  /\ deps \in OperationDags
  /\ status = [o \in Ops |-> "Ready"]
  /\ readySet = {o \in Ops : deps[o] = {}}
  /\ parallelism \in 1..MaxParallelism
  /\ cancelled = FALSE
  /\ hasAnyFailures = FALSE
  /\ verdict = "none"
  /\ invoked = {}
  /\ runs = [o \in Ops |-> 0]
  /\ siblings = {}

\* Mutant: the cancellation flag is not consulted.
CanDispatchIgnoringCancellation(c, n, p) == n < p

\* Dispatch is allowed while the run is not cancelled and a worker is free.
CanDispatch(c, n, p) == ~c /\ n < p

\* The coordinator assigns a ready operation to a free worker.
Dispatch(o) ==
  /\ verdict = "none"
  /\ o \in readySet
  /\ CanDispatch(cancelled, Cardinality(Executing), parallelism)
  /\ status' = [status EXCEPT ![o] = "Executing"]
  /\ readySet' = readySet \ {o}
  /\ invoked' = invoked \cup {o}
  /\ runs' = [runs EXCEPT ![o] = @ + 1]
  /\ UNCHANGED <<deps, parallelism, cancelled, hasAnyFailures, verdict, siblings>>
  /\ UNCHANGED <<asyncVars, cfgVars, cvVars, gitVars>>

\* Mutant: only the direct consumers are blocked.
BlockedByDirectOnly(d, o) == Consumers(d, o)

\* Mutant: dependencies and consumers are confused.
BlockedByBothDirections(d, o) == TransitiveConsumers(d, o) \cup TransitiveDependencies(d, o)

\* Failure propagation: every transitive consumer of a failed operation is Blocked.
BlockedBy(d, o) == TransitiveConsumers(d, o)

\* Mutant: a failure aborts the operations that are still running.
StatusAfterCompletionAbortSiblings(d, st, o, r) ==
  [x \in Ops |->
     IF x = o THEN r
     ELSE IF r = "Failure" /\ (x \in BlockedBy(d, o) \/ st[x] = "Executing") THEN "Blocked"
     ELSE st[x]]

\* Statuses after the coordinator has handled "o finished with result r".
StatusAfterCompletion(d, st, o, r) ==
  [x \in Ops |->
     IF x = o THEN r
     ELSE IF r = "Failure" /\ x \in BlockedBy(d, o) THEN "Blocked"
     ELSE st[x]]

\* Mutant: consumers are re-evaluated only after an operation that really ran.
NewlyEligibleAfterRunOnly(d, st, o) ==
  {c \in Consumers(d, o) :
     st[c] = "Ready" /\ IsEligible(d, st, c) /\ st[o] \in {"Success", "SuccessWithWarning"}}

\* Mutant: the failure flag is overwritten by the latest result.
RecordFailureLastOnly(f, r) == r = "Failure"

\* The coordinator remembers that some operation failed.
RecordFailure(f, r) == f \/ r = "Failure"

\* Consumers of o that the completion of o makes eligible.
NewlyEligible(d, st, o) ==
  {c \in Consumers(d, o) : st[c] = "Ready" /\ IsEligible(d, st, c)}

\* A worker reports the result of its runner; the coordinator records it,
\* blocks the dependents of a failure and re-evaluates the direct consumers.
Complete(o, r) ==
  /\ verdict = "none"
  /\ status[o] = "Executing"
  /\ LET st == StatusAfterCompletion(deps, status, o, r) IN
       /\ status' = st
       /\ readySet' = readySet \cup NewlyEligible(deps, st, o)
  /\ hasAnyFailures' = RecordFailure(hasAnyFailures, r)
  /\ siblings' = IF r = "Failure" THEN siblings \cup (Executing \ {o}) ELSE siblings
  /\ UNCHANGED <<deps, parallelism, cancelled, verdict, invoked, runs>>
  /\ UNCHANGED <<asyncVars, cfgVars, cvVars, gitVars>>

\* The external cancellation signal.
Cancel ==
  /\ verdict = "none"
  /\ ~cancelled
  /\ cancelled' = TRUE
  /\ UNCHANGED <<deps, status, readySet, parallelism, hasAnyFailures, verdict,
                 invoked, runs, siblings>>
  /\ UNCHANGED <<asyncVars, cfgVars, cvVars, gitVars>>

OverallVerdict(c, f) ==
  IF c THEN "cancelled" ELSE IF f THEN "failure" ELSE "success"

\* The executor returns once no worker is in flight and nothing can be dispatched.
Return ==
  /\ verdict = "none"
  /\ Executing = {}
  /\ cancelled \/ readySet = {}
  /\ verdict' = OverallVerdict(cancelled, hasAnyFailures)
  /\ UNCHANGED <<deps, status, readySet, parallelism, cancelled, hasAnyFailures,
                 invoked, runs, siblings>>
  /\ UNCHANGED <<asyncVars, cfgVars, cvVars, gitVars>>

DispatchSome == \E o \in Ops : Dispatch(o)

CompleteSome == \E o \in Ops : \E r \in RunnerResults : Complete(o, r)

Next == DispatchSome \/ CompleteSome \/ Cancel \/ Return

Spec == SchedInit /\ [][Next]_vars

\* Runs in which the external cancellation signal never arrives, with the
\* scheduling the design guarantees: eligible operations are eventually
\* dispatched and every started runner eventually returns.
LiveNext == DispatchSome \/ CompleteSome \/ Return

LiveSpec ==
  /\ SchedInit
  /\ [][LiveNext]_vars
  /\ WF_vars(DispatchSome)
  /\ WF_vars(CompleteSome)
  /\ WF_vars(Return)

\* The same scheduling guarantees, with the cancellation signal free to arrive
\* at any moment (nothing forces it to arrive).
CancelLiveSpec ==
  /\ SchedInit
  /\ [][Next]_vars
  /\ WF_vars(DispatchSome)
  /\ WF_vars(CompleteSome)
  /\ WF_vars(Return)

(***************************************************************************)
(* Async.forEachAsync (libraries/node-core-library/src/Async.ts)           *)
(*                                                                         *)
(* The closure state of one call is held in the variables; the functions   *)
(* below work on a record of them.  One action is one run-to-completion    *)
(* segment of the JavaScript code, from one await or promise reaction to   *)
(* the next.  iterator.next() results are delivered in call order.         *)
(***************************************************************************)
\* The scheduler variables while forEachAsync is studied.
SchedIdle ==
  /\ deps = [o \in Ops |-> {}]
  /\ status = [o \in Ops |-> "Ready"]
  /\ readySet = {}
  /\ parallelism = 1
  /\ cancelled = FALSE
  /\ hasAnyFailures = FALSE
  /\ verdict = "idle"
  /\ invoked = {}
  /\ runs = [o \in Ops |-> 0]
  /\ siblings = {}

Infinity == 1000000

Items == 1..MaxItems

\* iterator.next() reports done as 0 and the i-th item as i.
IteratorDone == 0

\* options?.concurrency && options.concurrency > 0 ? options.concurrency : Infinity
Concurrency(opt) ==
  IF Len(opt) = 1 /\ opt[1] # 0 /\ opt[1] > 0 THEN opt[1] ELSE Infinity

Closure ==
  [operationsInProgress |-> operationsInProgress,
   arrayIndex |-> arrayIndex,
   iteratorIsComplete |-> iteratorIsComplete,
   promiseHasResolvedOrRejected |-> promiseHasResolvedOrRejected,
   iterPos |-> iterPos,
   pendingNext |-> pendingNext,
   cb |-> cb,
   cbIndex |-> cbIndex,
   resolveCalls |-> resolveCalls,
   rejectCalls |-> rejectCalls]

SetClosure(c) ==
  /\ operationsInProgress' = c.operationsInProgress
  /\ arrayIndex' = c.arrayIndex
  /\ iteratorIsComplete' = c.iteratorIsComplete
  /\ promiseHasResolvedOrRejected' = c.promiseHasResolvedOrRejected
  /\ iterPos' = c.iterPos
  /\ pendingNext' = c.pendingNext
  /\ cb' = c.cb
  /\ cbIndex' = c.cbIndex
  /\ resolveCalls' = c.resolveCalls
  /\ rejectCalls' = c.rejectCalls

\* Mutant: the limit is compared with <=.
WhileConditionOffByOne(c, concurrency) ==
  /\ c.operationsInProgress <= concurrency
  /\ ~c.iteratorIsComplete
  /\ ~c.promiseHasResolvedOrRejected

\* The condition of the while loop of queueOperationsAsync.
WhileCondition(c, concurrency) ==
  /\ c.operationsInProgress < concurrency
  /\ ~c.iteratorIsComplete
  /\ ~c.promiseHasResolvedOrRejected

\* iterator.next() of an iterable of len items: the result, and the iterator after it.
IteratorNextResult(at, len) == IF at < len THEN at + 1 ELSE IteratorDone

IteratorNextPos(at, len) == IF at < len THEN at + 1 ELSE at

\* operationsInProgress++ and the call of iterator.next(), whose result is awaited.
CallIteratorNext(c, len) ==
  [c EXCEPT !.operationsInProgress = @ + 1,
            !.pendingNext = Append(@, IteratorNextResult(c.iterPos, len)),
            !.iterPos = IteratorNextPos(@, len)]

\* promiseHasResolvedOrRejected = true; resolve()
ResolveOverall(c) ==
  [c EXCEPT !.promiseHasResolvedOrRejected = TRUE, !.resolveCalls = @ + 1]

\* promiseHasResolvedOrRejected = true; reject(error)
RejectOverall(c) ==
  [c EXCEPT !.promiseHasResolvedOrRejected = TRUE, !.rejectCalls = @ + 1]

RECURSIVE onOperationCompletionAsync(_, _, _)

\* queueOperationsAsync from the test of its while loop up to the next await:
\* either it calls iterator.next() and is suspended, or it leaves the loop.
queueOperationsAsync(c, concurrency, len) ==
  IF WhileCondition(c, concurrency)
    THEN CallIteratorNext(c, len)
    ELSE IF c.iteratorIsComplete
           THEN onOperationCompletionAsync(c, concurrency, len)
           ELSE c

\* Mutant: the promise is resolved as soon as the iterator is complete,
\* whatever the number of operations in progress.
onOperationCompletionAsyncEarly(c, concurrency, len) ==
  IF ~c.promiseHasResolvedOrRejected
    THEN IF c.iteratorIsComplete
           THEN ResolveOverall(c)
           ELSE queueOperationsAsync(c, concurrency, len)
    ELSE c

onOperationCompletionAsync(c, concurrency, len) ==
  IF ~c.promiseHasResolvedOrRejected
    THEN IF c.operationsInProgress = 0 /\ c.iteratorIsComplete
           THEN ResolveOverall(c)
           ELSE IF ~c.iteratorIsComplete
                  THEN queueOperationsAsync(c, concurrency, len)
                  ELSE c
    ELSE c

\* Mutant: the waiting state is not untracked when the iterator is complete.
AfterIteratorNextStillTracked(c, r, mode) ==
  LET c1 == [c EXCEPT !.pendingNext = Tail(@),
                      !.iteratorIsComplete = (r = IteratorDone)]
  IN IF r # IteratorDone
       THEN [c1 EXCEPT !.cb[r] = mode,
                       !.cbIndex[r] = c.arrayIndex,
                       !.arrayIndex = @ + 1]
       ELSE c1

\* The body of the loop after "await iterator.next()" delivered result r,
\* up to the call of the callback (mode "running": it returned a promise;
\* mode "thrown": it threw synchronously).
AfterIteratorNext(c, r, mode) ==
  LET c1 == [c EXCEPT !.pendingNext = Tail(@),
                      !.iteratorIsComplete = (r = IteratorDone)]
  IN IF r # IteratorDone
       THEN [c1 EXCEPT !.cb[r] = mode,
                       !.cbIndex[r] = c.arrayIndex,
                       !.arrayIndex = @ + 1]
       ELSE [c1 EXCEPT !.operationsInProgress = @ - 1]

\* The reaction to a fulfilled callback promise (Async.ts:112-115).
OnCallbackFulfilled(c, i, concurrency, len) ==
  onOperationCompletionAsync(
    [c EXCEPT !.cb[i] = "fulfilled", !.operationsInProgress = @ - 1], concurrency, len)

AsyncInit ==
  /\ SchedIdle
  /\ CfgIdle
  /\ CvIdle
  /\ GitIdle
  /\ asyncPc = "init"
  /\ iterableLen \in 0..MaxItems
  /\ optConcurrency \in {<<>>} \cup {<<n>> : n \in (-1)..MaxConcurrency}
  /\ operationsInProgress = 0
  /\ arrayIndex = 0
  /\ iteratorIsComplete = FALSE
  /\ promiseHasResolvedOrRejected = FALSE
  /\ iterPos = 0
  /\ pendingNext = <<>>
  /\ cb = [i \in Items |-> "notStarted"]
  /\ cbIndex = [i \in Items |-> -1]
  /\ resolveCalls = 0
  /\ rejectCalls = 0
  /\ result = <<>>
  /\ mapAsyncOutcome = "pending"
  /\ completed = <<>>

\* forEachAsync is called: the promise executor runs queueOperationsAsync()
\* up to its first await (Async.ts:87-106, 142).
ForEachAsyncCall ==
  /\ asyncPc = "init"
  /\ asyncPc' = "running"
  /\ SetClosure(queueOperationsAsync(Closure, Concurrency(optConcurrency), iterableLen))
  /\ UNCHANGED <<iterableLen, optConcurrency>>
  /\ UNCHANGED <<result, mapAsyncOutcome, completed>>
  /\ UNCHANGED <<schedVars, cfgVars, cvVars, gitVars>>

\* The oldest awaited iterator.next() delivers; the callback, if any, returns
\* its promise and the loop goes on to its next await or to its end
\* (Async.ts:106-128).
IteratorNextDelivers ==
  /\ asyncPc = "running"
  /\ pendingNext # <<>>
  /\ SetClosure(queueOperationsAsync(AfterIteratorNext(Closure, Head(pendingNext), "running"),
                                     Concurrency(optConcurrency), iterableLen))
  /\ UNCHANGED <<asyncPc, iterableLen, optConcurrency>>
  /\ UNCHANGED <<result, mapAsyncOutcome, completed>>
  /\ UNCHANGED <<schedVars, cfgVars, cvVars, gitVars>>

\* The oldest awaited iterator.next() delivers an item and the callback throws
\* synchronously: this invocation of queueOperationsAsync ends with the error
\* (Async.ts:106-111), which reaches a catch handler later.
CallbackThrows ==
  /\ asyncPc = "running"
  /\ pendingNext # <<>>
  /\ Head(pendingNext) # IteratorDone
  /\ SetClosure(AfterIteratorNext(Closure, Head(pendingNext), "thrown"))
  /\ UNCHANGED <<asyncPc, iterableLen, optConcurrency>>
  /\ UNCHANGED <<result, mapAsyncOutcome, completed>>
  /\ UNCHANGED <<schedVars, cfgVars, cvVars, gitVars>>

\* What the callback given to mapAsync produces for an item.
ResultFor(item) == <<"result for item", item>>

\* Mutant: the entry is appended to the array.
StoreResultAtEnd(array, index, value) ==
  [k \in DOMAIN array \cup {Cardinality(DOMAIN array)} |->
     IF k = Cardinality(DOMAIN array) THEN value ELSE array[k]]

\* result[arrayIndex] = value
StoreResult(array, index, value) ==
  [k \in DOMAIN array \cup {index} |-> IF k = index THEN value ELSE array[k]]

\* The promise of the callback given to mapAsync is fulfilled for item i: the
\* function of Async.ts:55-57 resumes after its await, stores the entry and
\* ends, which fulfils the promise forEachAsync chained its reactions on.
\* The reaction of Async.ts:112-115 is a later job.
MapCallbackStores(i) ==
  /\ asyncPc = "running"
  /\ cb[i] = "running"
  /\ cbIndex[i] \notin DOMAIN result
  /\ result' = StoreResult(result, cbIndex[i], ResultFor(i))
  /\ UNCHANGED <<asyncPc, iterableLen, optConcurrency, operationsInProgress, arrayIndex,
                 iteratorIsComplete, promiseHasResolvedOrRejected, iterPos, pendingNext,
                 cb, cbIndex, resolveCalls, rejectCalls, mapAsyncOutcome, completed>>
  /\ UNCHANGED <<schedVars, cfgVars, cvVars, gitVars>>

\* The reaction to the fulfilled promise of item i runs (Async.ts:112-115).
CallbackFulfilled(i) ==
  /\ asyncPc = "running"
  /\ cb[i] = "running"
  /\ cbIndex[i] \in DOMAIN result
  /\ SetClosure(OnCallbackFulfilled(Closure, i, Concurrency(optConcurrency), iterableLen))
  /\ completed' = Append(completed, i)
  /\ UNCHANGED <<result, mapAsyncOutcome>>
  /\ UNCHANGED <<asyncPc, iterableLen, optConcurrency>>
  /\ UNCHANGED <<schedVars, cfgVars, cvVars, gitVars>>

\* A callback's promise is rejected: the function of Async.ts:55-57 ends at
\* its await without storing an entry, and the catch handler runs
\* (Async.ts:116-119).
CallbackRejected(i) ==
  /\ asyncPc = "running"
  /\ cb[i] = "running"
  /\ cbIndex[i] \notin DOMAIN result
  /\ SetClosure(RejectOverall([Closure EXCEPT !.cb[i] = "rejected"]))
  /\ UNCHANGED <<asyncPc, iterableLen, optConcurrency>>
  /\ UNCHANGED <<result, mapAsyncOutcome, completed>>
  /\ UNCHANGED <<schedVars, cfgVars, cvVars, gitVars>>

\* The error of a synchronous throw reaches its catch handler
\* (Async.ts:116-119 or 142-145).
ThrowCaught(i) ==
  /\ asyncPc = "running"
  /\ cb[i] = "thrown"
  /\ SetClosure(RejectOverall([Closure EXCEPT !.cb[i] = "caught"]))
  /\ UNCHANGED <<asyncPc, iterableLen, optConcurrency>>
  /\ UNCHANGED <<result, mapAsyncOutcome, completed>>
  /\ UNCHANGED <<schedVars, cfgVars, cvVars, gitVars>>

\* The promise of forEachAsync is resolved: mapAsync returns result (Async.ts:53-61).
MapAsyncReturns ==
  /\ asyncPc = "running"
  /\ mapAsyncOutcome = "pending"
  /\ resolveCalls > 0
  /\ mapAsyncOutcome' = "returned"
  /\ UNCHANGED <<asyncPc, iterableLen, optConcurrency, operationsInProgress, arrayIndex,
                 iteratorIsComplete, promiseHasResolvedOrRejected, iterPos, pendingNext,
                 cb, cbIndex, resolveCalls, rejectCalls, result, completed>>
  /\ UNCHANGED <<schedVars, cfgVars, cvVars, gitVars>>

\* The promise of forEachAsync is rejected: so is the promise of mapAsync.
MapAsyncRejects ==
  /\ asyncPc = "running"
  /\ mapAsyncOutcome = "pending"
  /\ resolveCalls = 0
  /\ rejectCalls > 0
  /\ mapAsyncOutcome' = "rejected"
  /\ UNCHANGED <<asyncPc, iterableLen, optConcurrency, operationsInProgress, arrayIndex,
                 iteratorIsComplete, promiseHasResolvedOrRejected, iterPos, pendingNext,
                 cb, cbIndex, resolveCalls, rejectCalls, result, completed>>
  /\ UNCHANGED <<schedVars, cfgVars, cvVars, gitVars>>

MapCallbackStoresSome == \E i \in Items : MapCallbackStores(i)

CallbackFulfilledSome == \E i \in Items : CallbackFulfilled(i)

CallbackRejectedSome == \E i \in Items : CallbackRejected(i)

ThrowCaughtSome == \E i \in Items : ThrowCaught(i)

NextAsync ==
  \/ ForEachAsyncCall
  \/ IteratorNextDelivers
  \/ CallbackThrows
  \/ MapCallbackStoresSome
  \/ CallbackFulfilledSome
  \/ CallbackRejectedSome
  \/ ThrowCaughtSome
  \/ MapAsyncReturns
  \/ MapAsyncRejects

SpecAsync == AsyncInit /\ [][NextAsync]_vars

\* forEachAsync with callbacks that are all fulfilled in the end: the job
\* queue runs every pending reaction, so each step that stays enabled is taken.
NextAsyncFulfilling ==
  \/ ForEachAsyncCall
  \/ IteratorNextDelivers
  \/ MapCallbackStoresSome
  \/ CallbackFulfilledSome
  \/ MapAsyncReturns

AsyncLiveSpec ==
  /\ AsyncInit
  /\ [][NextAsyncFulfilling]_vars
  /\ WF_vars(ForEachAsyncCall)
  /\ WF_vars(IteratorNextDelivers)
  /\ WF_vars(MapCallbackStoresSome)
  /\ WF_vars(CallbackFulfilledSome)
  /\ WF_vars(MapAsyncReturns)

(***************************************************************************)
(* CommandLineConfiguration (apps/rush-lib/src/api/CommandLineConfiguration.ts) *)
(*                                                                         *)
(* Strings are sequences of one-character strings.  A JavaScript Map is a  *)
(* sequence of [key, value] entries in insertion order, a JavaScript Set a *)
(* sequence without repetition in insertion order.  Phase objects live in  *)
(* config.phaseObjects and are referred to by their index, so that two     *)
(* phases with equal fields stay distinct objects; 0 stands for undefined. *)
(***************************************************************************)
Undefined == 0

NoError == <<>>

RECURSIVE SeqRange(_)
SeqRange(q) == IF q = <<>> THEN {} ELSE {Head(q)} \cup SeqRange(Tail(q))

\* Set.prototype.has / add / delete
SetHas(set, x) == x \in SeqRange(set)

SetAdd(set, x) == IF SetHas(set, x) THEN set ELSE Append(set, x)

SetDelete(set, x) == SelectSeq(set, LAMBDA y : y # x)

\* Map.prototype.has / get / set
MapHas(map, key) == \E i \in DOMAIN map : map[i].key = key

MapGet(map, key) ==
  IF MapHas(map, key)
    THEN map[CHOOSE i \in DOMAIN map : map[i].key = key].value
    ELSE Undefined

MapSet(map, key, value) ==
  IF MapHas(map, key)
    THEN [i \in DOMAIN map |-> IF map[i].key = key THEN [key |-> key, value |-> value] ELSE map[i]]
    ELSE Append(map, [key |-> key, value |-> value])

MapValues(map) == [i \in DOMAIN map |-> map[i].value]

\* RushConstants: phaseNamePrefix, the command kinds and the build command names
PhaseNamePrefix == <<"_", "p", "h", "a", "s", "e", ":">>

BulkCommandKind == "bulk"

GlobalCommandKind == "global"

PhasedCommandKind == "phased"

BuildCommandName == <<"b", "u", "i", "l", "d">>

RebuildCommandName == <<"r", "e">> \o BuildCommandName

LowercaseLetters ==
  {"a", "b", "c", "d", "e", "f", "g", "h", "i", "j", "k", "l", "m",
   "n", "o", "p", "q", "r", "s", "t", "u", "v", "w", "x", "y", "z"}

Digits == {"0", "1", "2", "3", "4", "5", "6", "7", "8", "9"}

\* The part ([a-z0-9]*)([-][a-z0-9]+)*$ of the phase name pattern, from position i.
RECURSIVE MatchesNameTail(_, _)
MatchesNameTail(name, i) ==
  IF i > Len(name) THEN TRUE
  ELSE IF name[i] \in LowercaseLetters \cup Digits THEN MatchesNameTail(name, i + 1)
  ELSE IF name[i] = "-"
    THEN /\ i + 1 <= Len(name)
         /\ name[i + 1] \in LowercaseLetters \cup Digits
         /\ MatchesNameTail(name, i + 2)
  ELSE FALSE

\* Mutant: the character after the prefix may be a digit or a hyphen group.
MatchesPhaseNameRegexpAnyStart(name) ==
  LET n == Len(PhaseNamePrefix) IN
    /\ Len(name) > n
    /\ SubSeq(name, 1, n) = PhaseNamePrefix
    /\ MatchesNameTail(name, n + 1)

\* phase.name.match(/^_phase:[a-z][a-z0-9]*([-][a-z0-9]+)*$/)
MatchesPhaseNameRegexp(name) ==
  LET n == Len(PhaseNamePrefix) IN
    /\ Len(name) > n
    /\ SubSeq(name, 1, n) = PhaseNamePrefix
    /\ name[n + 1] \in LowercaseLetters
    /\ MatchesNameTail(name, n + 2)

\* name.replace(/:/g, '_')
NormalizeNameForLogFilenameIdentifiers(name) ==
  [i \in DOMAIN name |-> IF name[i] = ":" THEN "_" ELSE name[i]]

\* The instance when the constructor starts.
EmptyConfiguration ==
  [phases |-> <<>>,
   phaseObjects |-> <<>>,
   commands |-> <<>>,
   parameters |-> <<>>,
   phaseSetObjects |-> <<>>,
   parameterSetObjects |-> <<>>,
   syntheticPhasesByTranslatedBulkCommandName |-> <<>>,
   buildCommandPhases |-> Undefined,
   error |-> NoError]

Throw(c, e) == [c EXCEPT !.error = e]

\* Mutant: a name that is registered already is not detected.
IsSpecifiedMoreThanOnceNever(registry, name) == FALSE

\* this.phases.has(phase.name), this.commands.has(command.name)
IsSpecifiedMoreThanOnce(registry, name) == MapHas(registry, name)

\* First loop over phasesJson: one fresh phase object per declared phase.
RECURSIVE RegisterPhases(_, _, _)
RegisterPhases(c, phasesJson, i) ==
  IF i > Len(phasesJson) \/ c.error # NoError THEN c
  ELSE LET phase == phasesJson[i] IN
    IF IsSpecifiedMoreThanOnce(c.phases, phase.name)
      THEN Throw(c, [kind |-> "phase specified more than once", name |-> phase.name])
    ELSE IF ~MatchesPhaseNameRegexp(phase.name)
      THEN Throw(c, [kind |-> "not a valid phase name", name |-> phase.name])
    ELSE
      LET processedPhase ==
            [name |-> phase.name,
             isSynthetic |-> FALSE,
             logFilenameIdentifier |-> NormalizeNameForLogFilenameIdentifiers(phase.name),
             associatedParameters |-> <<>>,
             dependencies |-> [self |-> <<>>, upstream |-> <<>>],
             ignoreMissingScript |-> phase.ignoreMissingScript,
             allowWarningsOnSuccess |-> phase.allowWarningsOnSuccess]
          id == Len(c.phaseObjects) + 1
      IN RegisterPhases(
           [c EXCEPT !.phaseObjects = Append(@, processedPhase),
                     !.phases = MapSet(@, phase.name, id)],
           phasesJson, i + 1)

\* The loop over one dependency list of a raw phase ("self" or "upstream").
RECURSIVE ResolveDependencyNames(_, _, _, _, _)
ResolveDependencyNames(c, id, which, names, j) ==
  IF j > Len(names) \/ c.error # NoError THEN c
  ELSE LET dependency == MapGet(c.phases, names[j]) IN
    IF dependency = Undefined
      THEN Throw(c, [kind |-> "dependency phase does not exist",
                     name |-> c.phaseObjects[id].name,
                     which |-> which,
                     dependencyName |-> names[j]])
      ELSE ResolveDependencyNames(
             IF which = "self"
               THEN [c EXCEPT !.phaseObjects[id].dependencies.self = SetAdd(@, dependency)]
               ELSE [c EXCEPT !.phaseObjects[id].dependencies.upstream = SetAdd(@, dependency)],
             id, which, names, j + 1)

\* Second loop over phasesJson: resolve phase names to the underlying objects.
RECURSIVE ResolvePhases(_, _, _)
ResolvePhases(c, phasesJson, i) ==
  IF i > Len(phasesJson) \/ c.error # NoError THEN c
  ELSE LET rawPhase == phasesJson[i]
           id == MapGet(c.phases, rawPhase.name)
           c1 == ResolveDependencyNames(c, id, "self", rawPhase.dependencies.self, 1)
           c2 == ResolveDependencyNames(c1, id, "upstream", rawPhase.dependencies.upstream, 1)
       IN ResolvePhases(c2, phasesJson, i + 1)

PhaseNames(c, ids) == [k \in DOMAIN ids |-> c.phaseObjects[ids[k]].name]

\* Mutant: the walk follows the upstream dependencies as well.
DependenciesToCheckWithUpstream(c, phase) ==
  c.phaseObjects[phase].dependencies.self \o c.phaseObjects[phase].dependencies.upstream

\* The dependencies _checkForPhaseSelfCycles iterates: phase.dependencies.self.
DependenciesToCheck(c, phase) == c.phaseObjects[phase].dependencies.self

\* _checkForPhaseSelfCycles.  The walk state w holds phasesInPath,
\* cycleFreePhases and the error thrown, if any.
RECURSIVE checkForPhaseSelfCycles(_, _, _)
RECURSIVE CheckSelfDependenciesFrom(_, _, _, _)

\* The for loop of _checkForPhaseSelfCycles over phase.dependencies.self, from entry j.
CheckSelfDependenciesFrom(c, phase, j, w) ==
  LET selfDeps == DependenciesToCheck(c, phase) IN
    IF j > Len(selfDeps) \/ w.error # NoError THEN w
    ELSE LET dependency == selfDeps[j] IN
      IF SetHas(w.phasesInPath, dependency)
        THEN [w EXCEPT !.error = [kind |-> "cycle",
                                  dependency |-> c.phaseObjects[dependency].name,
                                  path |-> PhaseNames(c, w.phasesInPath)]]
        ELSE LET w1 == [w EXCEPT !.phasesInPath = SetAdd(@, dependency)]
                 w2 == checkForPhaseSelfCycles(c, dependency, w1)
                 w3 == IF w2.error # NoError THEN w2
                       ELSE [w2 EXCEPT !.phasesInPath = SetDelete(@, dependency)]
             IN CheckSelfDependenciesFrom(c, phase, j + 1, w3)

\* Mutant: a phase is marked cycle-free as soon as it is entered.
checkForPhaseSelfCyclesMarkingEarly(c, phase, w) ==
  IF phase \in w.cycleFreePhases THEN w
  ELSE CheckSelfDependenciesFrom(c, phase, 1,
         [w EXCEPT !.cycleFreePhases = @ \cup {phase}])

checkForPhaseSelfCycles(c, phase, w) ==
  IF phase \in w.cycleFreePhases THEN w
  ELSE LET w1 == CheckSelfDependenciesFrom(c, phase, 1, w) IN
    IF w1.error # NoError THEN w1
    ELSE [w1 EXCEPT !.cycleFreePhases = @ \cup {phase}]

\* The loop "for (const phase of this.phases.values())" over the cycle check.
RECURSIVE CheckAllPhasesForSelfCycles(_, _, _)
CheckAllPhasesForSelfCycles(c, i, w) ==
  IF i > Len(c.phases) \/ w.error # NoError THEN w
  ELSE CheckAllPhasesForSelfCycles(c, i + 1,
         checkForPhaseSelfCycles(c, MapValues(c.phases)[i], w))

\* The phases part of the constructor (CommandLineConfiguration.ts:183-265).
ConstructPhases(c, phasesJson) ==
  LET c1 == RegisterPhases(c, phasesJson, 1)
      c2 == ResolvePhases(c1, phasesJson, 1)
      w == CheckAllPhasesForSelfCycles(c2, 1,
             [phasesInPath |-> <<>>, cycleFreePhases |-> {}, error |-> NoError])
  IN IF c1.error # NoError THEN c1
     ELSE IF c2.error # NoError THEN c2
     ELSE IF w.error # NoError THEN Throw(c2, w.error)
     ELSE c2

\* A command of command-line.json with every optional property spelled out
\* (absent flags are FALSE, absent lists are empty, watchOptions is <<>> or
\* <<w>>).  phasesIsUndefined tells an object without the phases property
\* from one with "phases": [].
CommandJson(kind, name) ==
  [commandKind |-> kind,
   name |-> name,
   phases |-> <<>>,
   phasesIsUndefined |-> FALSE,
   watchOptions |-> <<>>,
   ignoreDependencyOrder |-> FALSE,
   watchForChanges |-> FALSE,
   safeForSimultaneousRushProcesses |-> FALSE,
   enableParallelism |-> FALSE,
   incremental |-> FALSE,
   ignoreMissingScript |-> FALSE,
   allowWarningsInSuccessfulBuild |-> FALSE,
   disableBuildCache |-> FALSE]

DEFAULT_BUILD_COMMAND_JSON ==
  [CommandJson(BulkCommandKind, BuildCommandName) EXCEPT
     !.safeForSimultaneousRushProcesses = FALSE,
     !.enableParallelism = TRUE,
     !.incremental = TRUE]

DEFAULT_REBUILD_COMMAND_JSON ==
  [CommandJson(BulkCommandKind, RebuildCommandName) EXCEPT
     !.safeForSimultaneousRushProcesses = FALSE,
     !.enableParallelism = TRUE,
     !.incremental = FALSE]

\* { ...command, commandKind, isSynthetic, associatedParameters, phases, watchPhases, alwaysWatch }
NormalizedCommand(command, kind, isSynthetic, parameterSet, phaseSet, watchPhaseSet, alwaysWatch) ==
  [commandKind |-> kind,
   name |-> command.name,
   isSynthetic |-> isSynthetic,
   associatedParameters |-> parameterSet,
   phases |-> phaseSet,
   watchPhases |-> watchPhaseSet,
   alwaysWatch |-> alwaysWatch,
   ignoreDependencyOrder |-> command.ignoreDependencyOrder,
   watchForChanges |-> command.watchForChanges,
   safeForSimultaneousRushProcesses |-> command.safeForSimultaneousRushProcesses,
   enableParallelism |-> command.enableParallelism,
   incremental |-> command.incremental,
   disableBuildCache |-> command.disableBuildCache]

\* Mutant: the synthetic phase of a bulk command never depends on itself upstream.
SyntheticUpstreamNever(ignoreDependencyOrder, phase) == <<>>

\* Mutant: the self-reference is recorded as a dependency within the same project.
SyntheticSelfMisplaced(ignoreDependencyOrder, phase) ==
  IF ~ignoreDependencyOrder THEN <<phase>> ELSE <<>>

\* phase.dependencies.self of the synthetic phase of a bulk command: always empty.
SyntheticSelf(ignoreDependencyOrder, phase) == <<>>

\* if (!command.ignoreDependencyOrder) phase.dependencies.upstream.add(phase)
SyntheticUpstream(ignoreDependencyOrder, phase) ==
  IF ~ignoreDependencyOrder THEN <<phase>> ELSE <<>>

\* _translateBulkCommandToPhasedCommand: the instance after the call; the
\* translated command is TranslatedCommand of the instance before the call.
translateBulkCommandToPhasedCommand(c, command) ==
  LET phaseName == command.name
      id == Len(c.phaseObjects) + 1
      phase ==
        [name |-> phaseName,
         isSynthetic |-> TRUE,
         logFilenameIdentifier |-> NormalizeNameForLogFilenameIdentifiers(command.name),
         associatedParameters |-> <<>>,
         dependencies |-> [self |-> SyntheticSelf(command.ignoreDependencyOrder, id),
                           upstream |-> SyntheticUpstream(command.ignoreDependencyOrder, id)],
         ignoreMissingScript |-> command.ignoreMissingScript,
         allowWarningsOnSuccess |-> command.allowWarningsInSuccessfulBuild]
  IN [c EXCEPT
        !.phaseObjects = Append(@, phase),
        !.phases = MapSet(@, phaseName, id),
        !.syntheticPhasesByTranslatedBulkCommandName = MapSet(@, command.name, id),
        \* new Set([phase]), and a second new Set() when watchForChanges is unset
        !.phaseSetObjects = IF command.watchForChanges
                              THEN Append(@, <<id>>)
                              ELSE Append(Append(@, <<id>>), <<>>),
        \* new Set<IParameterJson>()
        !.parameterSetObjects = Append(@, <<>>)]

\* Mutant: a translated bulk command always watches its phases.
WatchPhasesOfBulkAlways(watchForChanges, phases, fresh) == phases

\* watchPhases: command.watchForChanges ? phases : new Set()
WatchPhasesOfBulk(watchForChanges, phases, fresh) ==
  IF watchForChanges THEN phases ELSE fresh

TranslatedCommand(c, command) ==
  LET phases == Len(c.phaseSetObjects) + 1 IN
    NormalizedCommand(command, PhasedCommandKind, TRUE,
                      Len(c.parameterSetObjects) + 1,
                      phases,
                      WatchPhasesOfBulk(command.watchForChanges, phases, phases + 1),
                      command.watchForChanges)

\* for (const phaseName of names) { lookup; set.add(phase) } on the Set object setId
RECURSIVE AddNamedPhases(_, _, _, _, _, _)
AddNamedPhases(c, commandName, property, setId, names, j) ==
  IF j > Len(names) \/ c.error # NoError THEN c
  ELSE LET phase == MapGet(c.phases, names[j]) IN
    IF phase = Undefined
      THEN Throw(c, [kind |-> "command phase does not exist",
                     name |-> commandName,
                     property |-> property,
                     phaseName |-> names[j]])
      ELSE AddNamedPhases([c EXCEPT !.phaseSetObjects[setId] = SetAdd(@, phase)],
                          commandName, property, setId, names, j + 1)

RECURSIVE AddAll(_, _, _)
AddAll(set, ids, j) ==
  IF j > Len(ids) THEN set ELSE AddAll(SetAdd(set, ids[j]), ids, j + 1)

\* Mutant: the expansion adds every registered phase.
RECURSIVE ExpandPhasesToAllRegistered(_, _, _)
ExpandPhasesToAllRegistered(phaseObjects, commandPhases, i) ==
  IF i > Len(phaseObjects) THEN commandPhases
  ELSE ExpandPhasesToAllRegistered(phaseObjects, SetAdd(commandPhases, i), i + 1)

\* Mutant: the expansion follows the upstream dependencies only.
RECURSIVE ExpandPhasesUpstreamOnly(_, _, _)
ExpandPhasesUpstreamOnly(phaseObjects, commandPhases, i) ==
  IF i > Len(commandPhases) THEN commandPhases
  ELSE ExpandPhasesUpstreamOnly(phaseObjects,
         AddAll(commandPhases, phaseObjects[commandPhases[i]].dependencies.upstream, 1), i + 1)

\* Mutant: the expansion follows the self dependencies only.
RECURSIVE ExpandPhasesSelfOnly(_, _, _)
ExpandPhasesSelfOnly(phaseObjects, commandPhases, i) ==
  IF i > Len(commandPhases) THEN commandPhases
  ELSE ExpandPhasesSelfOnly(phaseObjects,
         AddAll(commandPhases, phaseObjects[commandPhases[i]].dependencies.self, 1), i + 1)

\* Implicit phase dependency expansion: "for (const phase of commandPhases)"
\* with additions during the iteration, from position i of the Set.
RECURSIVE ExpandPhases(_, _, _)
ExpandPhases(phaseObjects, commandPhases, i) ==
  IF i > Len(commandPhases) THEN commandPhases
  ELSE LET phase == phaseObjects[commandPhases[i]]
           withSelf == AddAll(commandPhases, phase.dependencies.self, 1)
           withUpstream == AddAll(withSelf, phase.dependencies.upstream, 1)
       IN ExpandPhases(phaseObjects, withUpstream, i + 1)

\* case RushConstants.phasedCommandKind of the constructor's switch.
\* "for (const phaseName of command.phases)" has no guard: without the
\* phases property it throws a TypeError.
NormalizePhasedCommand(c, command) ==
  LET commandPhases == Len(c.phaseSetObjects) + 1
      watchPhases == Len(c.phaseSetObjects) + 2
      c0 == [c EXCEPT !.phaseSetObjects = Append(Append(@, <<>>), <<>>),
                      !.parameterSetObjects = Append(@, <<>>)]
      c1 == IF command.phasesIsUndefined
              THEN Throw(c, [kind |-> "TypeError",
                             message |-> "command.phases is not iterable"])
              ELSE AddNamedPhases(c0, command.name, "phases", commandPhases,
                                  command.phases, 1)
      c2 == IF c1.error # NoError THEN c1
            ELSE [c1 EXCEPT !.phaseSetObjects[commandPhases] =
                              ExpandPhases(c1.phaseObjects, @, 1)]
      c3 == IF c2.error # NoError \/ command.watchOptions = <<>> THEN c2
            ELSE AddNamedPhases(c2, command.name, "watchPhases", watchPhases,
                                command.watchOptions[1].watchPhases, 1)
  IN c3

PhasedCommand(c, command) ==
  NormalizedCommand(command, PhasedCommandKind, FALSE,
                    Len(c.parameterSetObjects) + 1,
                    Len(c.phaseSetObjects) + 1,
                    Len(c.phaseSetObjects) + 2,
                    IF command.watchOptions = <<>> THEN FALSE
                    ELSE command.watchOptions[1].alwaysWatch)

GlobalCommand(c, command) ==
  NormalizedCommand(command, GlobalCommandKind, FALSE,
                    Len(c.parameterSetObjects) + 1, Undefined, Undefined, FALSE)

\* Mutant: only the build command is protected.
IsBuildOnly(name) == name = BuildCommandName

\* normalizedCommand.name === buildCommandName || normalizedCommand.name === rebuildCommandName
IsBuildOrRebuild(name) == name \in {BuildCommandName, RebuildCommandName}

\* Mutant: the flag is read from the defaults instead of the declaration.
IsSafeForSimultaneousRushProcessesByDefault(command) ==
  DEFAULT_BUILD_COMMAND_JSON.safeForSimultaneousRushProcesses

\* command.safeForSimultaneousRushProcesses
IsSafeForSimultaneousRushProcesses(command) == command.safeForSimultaneousRushProcesses

\* The body of "for (const command of commandsJson)" for one command.
ProcessCommand(c, command) ==
  IF IsSpecifiedMoreThanOnce(c.commands, command.name)
    THEN Throw(c, [kind |-> "command specified more than once", name |-> command.name])
  ELSE
    LET c1 == CASE command.commandKind = PhasedCommandKind -> NormalizePhasedCommand(c, command)
                [] command.commandKind = GlobalCommandKind ->
                     [c EXCEPT !.parameterSetObjects = Append(@, <<>>)]
                [] command.commandKind = BulkCommandKind ->
                     translateBulkCommandToPhasedCommand(c, command)
        normalizedCommand ==
              CASE command.commandKind = PhasedCommandKind -> PhasedCommand(c, command)
                [] command.commandKind = GlobalCommandKind -> GlobalCommand(c, command)
                [] command.commandKind = BulkCommandKind -> TranslatedCommand(c, command)
        isBuildOrRebuild == IsBuildOrRebuild(normalizedCommand.name)
    IN IF c1.error # NoError THEN c1
       ELSE IF isBuildOrRebuild /\ normalizedCommand.commandKind = GlobalCommandKind
         THEN Throw(c1, [kind |-> "build command cannot be global",
                         name |-> normalizedCommand.name,
                         commandKind |-> GlobalCommandKind,
                         allowedKinds |-> {BulkCommandKind, PhasedCommandKind}])
       ELSE IF isBuildOrRebuild /\ IsSafeForSimultaneousRushProcesses(command)
         THEN Throw(c1, [kind |-> "safeForSimultaneousRushProcesses=true is not supported",
                         name |-> normalizedCommand.name])
       ELSE [c1 EXCEPT
               !.buildCommandPhases =
                  IF normalizedCommand.name = BuildCommandName
                    THEN normalizedCommand.phases ELSE @,
               !.commands = MapSet(@, normalizedCommand.name, normalizedCommand)]

RECURSIVE ProcessCommands(_, _, _)
ProcessCommands(c, commandsJson, i) ==
  IF i > Len(commandsJson) \/ c.error # NoError THEN c
  ELSE ProcessCommands(ProcessCommand(c, commandsJson[i]), commandsJson, i + 1)

\* The default build command, when the file declares none.
AddDefaultBuildCommand(c) ==
  IF MapHas(c.commands, BuildCommandName) THEN c
  ELSE LET buildCommand == TranslatedCommand(c, DEFAULT_BUILD_COMMAND_JSON)
           c1 == translateBulkCommandToPhasedCommand(c, DEFAULT_BUILD_COMMAND_JSON)
       IN [c1 EXCEPT !.buildCommandPhases = buildCommand.phases,
                     !.commands = MapSet(@, buildCommand.name, buildCommand)]

\* Mutant: the default rebuild command gets a parameter set of its own.
AddDefaultRebuildCommandWithOwnParameters(c) ==
  IF MapHas(c.commands, RebuildCommandName) THEN c
  ELSE IF c.buildCommandPhases = Undefined
    THEN Throw(c, [kind |-> "phases for build were not found"])
  ELSE LET rebuildCommand ==
             NormalizedCommand(DEFAULT_REBUILD_COMMAND_JSON, PhasedCommandKind, TRUE,
                               Len(c.parameterSetObjects) + 1,
                               c.buildCommandPhases,
                               Len(c.phaseSetObjects) + 1,
                               FALSE)
       IN [c EXCEPT !.phaseSetObjects = Append(@, <<>>),
                    !.parameterSetObjects = Append(@, <<>>),
                    !.commands = MapSet(@, rebuildCommand.name, rebuildCommand)]

\* The default rebuild command, when the file declares none: it takes the
\* build command's phases and associatedParameters objects.
AddDefaultRebuildCommand(c) ==
  IF MapHas(c.commands, RebuildCommandName) THEN c
  ELSE IF c.buildCommandPhases = Undefined
    THEN Throw(c, [kind |-> "phases for build were not found"])
  ELSE LET buildCommand == MapGet(c.commands, BuildCommandName)
           rebuildCommand ==
             NormalizedCommand(DEFAULT_REBUILD_COMMAND_JSON, PhasedCommandKind, TRUE,
                               buildCommand.associatedParameters,
                               c.buildCommandPhases,
                               Len(c.phaseSetObjects) + 1,
                               FALSE)
       IN [c EXCEPT !.phaseSetObjects = Append(@, <<>>),
                    !.commands = MapSet(@, rebuildCommand.name, rebuildCommand)]

\* Mutant: the option is not consulted.
AddDefaultCommandsAlways(c, opts) ==
  AddDefaultRebuildCommand(AddDefaultBuildCommand(c))

\* if (!options.doNotIncludeDefaultBuildCommands) { ... }
AddDefaultCommands(c, opts) ==
  IF opts.doNotIncludeDefaultBuildCommands THEN c
  ELSE AddDefaultRebuildCommand(AddDefaultBuildCommand(c))

\* A parameter of command-line.json with every optional property spelled out
\* (absent lists are empty, defaultValue is <<>> or <<value>>).
ParameterJson(kind, longName) ==
  [parameterKind |-> kind,
   longName |-> longName,
   associatedPhases |-> <<>>,
   associatedCommands |-> <<>>,
   alternatives |-> <<>>,
   defaultValue |-> <<>>]

\* normalizedParameter.defaultValue && alternativeNames.indexOf(defaultValue) < 0
HasUnknownDefaultValue(parameter) ==
  /\ parameter.parameterKind = "choice"
  /\ parameter.defaultValue # <<>>
  /\ parameter.defaultValue[1] # <<>>
  /\ parameter.defaultValue[1] \notin {parameter.alternatives[n].name : n \in DOMAIN parameter.alternatives}

\* Mutant: the mapping from bulk command names to synthetic phases is not consulted.
SyntheticPhaseOfNone(c, associatedCommandName) == Undefined

\* this._syntheticPhasesByTranslatedBulkCommandName.get(associatedCommandName)
SyntheticPhaseOf(c, associatedCommandName) ==
  MapGet(c.syntheticPhasesByTranslatedBulkCommandName, associatedCommandName)

\* The loop over normalizedParameter.associatedCommands for parameter number
\* idx.  The walk state a holds the instance and the two flags of the loop.
RECURSIVE AssociateCommands(_, _, _, _)
AssociateCommands(a, idx, names, j) ==
  IF j > Len(names) \/ a.c.error # NoError THEN a
  ELSE
    LET associatedCommandName == names[j]
        syntheticPhase == SyntheticPhaseOf(a.c, associatedCommandName)
        c1 == IF syntheticPhase # Undefined
                THEN [a.c EXCEPT !.parameters[idx].associatedPhases =
                                   Append(@, a.c.phaseObjects[syntheticPhase].name)]
                ELSE a.c
    IN IF ~MapHas(c1.commands, associatedCommandName)
         THEN [a EXCEPT !.c = Throw(c1, [kind |-> "associated command does not exist",
                                         longName |-> c1.parameters[idx].longName,
                                         commandName |-> associatedCommandName])]
         ELSE
           LET associatedCommand == MapGet(c1.commands, associatedCommandName) IN
             AssociateCommands(
               [c |-> [c1 EXCEPT !.parameterSetObjects[associatedCommand.associatedParameters] =
                                    SetAdd(@, idx)],
                parameterHasAssociatedCommands |-> TRUE,
                parameterIsOnlyAssociatedWithPhasedCommands |->
                  a.parameterIsOnlyAssociatedWithPhasedCommands
                    /\ associatedCommand.commandKind = PhasedCommandKind],
               idx, names, j + 1)

\* The loop over normalizedParameter.associatedPhases: the name of a phase
\* that does not exist, or <<>> when every phase exists.
MissingAssociatedPhases(c, names) ==
  SelectSeq(names, LAMBDA name : MapGet(c.phases, name) = Undefined)

\* Mutant: an associated phase is required whatever the kinds of the commands.
LacksAssociatedPhasesAnyKind(onlyPhasedCommands, hasAssociatedPhases) ==
  ~hasAssociatedPhases

\* parameterIsOnlyAssociatedWithPhasedCommands && !parameterHasAssociatedPhases
LacksAssociatedPhases(onlyPhasedCommands, hasAssociatedPhases) ==
  onlyPhasedCommands /\ ~hasAssociatedPhases

\* The body of "for (const parameter of parametersJson)" for one parameter.
ProcessParameter(c, parameter) ==
  LET idx == Len(c.parameters) + 1
      normalizedParameter == parameter
      c0 == [c EXCEPT !.parameters = Append(@, normalizedParameter)]
  IN
    IF HasUnknownDefaultValue(normalizedParameter)
      THEN Throw(c0, [kind |-> "default value is not one of the alternatives",
                      longName |-> normalizedParameter.longName,
                      defaultValue |-> normalizedParameter.defaultValue[1]])
    ELSE
      LET a == AssociateCommands(
                 [c |-> c0,
                  parameterHasAssociatedCommands |-> FALSE,
                  parameterIsOnlyAssociatedWithPhasedCommands |-> TRUE],
                 idx, normalizedParameter.associatedCommands, 1)
          associatedPhases == a.c.parameters[idx].associatedPhases
          missing == MissingAssociatedPhases(a.c, associatedPhases)
          parameterHasAssociatedPhases == associatedPhases # <<>>
      IN
        IF a.c.error # NoError THEN a.c
        ELSE IF missing # <<>>
          THEN Throw(a.c, [kind |-> "associated phase does not exist",
                           longName |-> normalizedParameter.longName,
                           phaseName |-> missing[1]])
        ELSE IF ~a.parameterHasAssociatedCommands
          THEN Throw(a.c, [kind |-> "lists no associated commands",
                           longName |-> normalizedParameter.longName])
        ELSE IF LacksAssociatedPhases(a.parameterIsOnlyAssociatedWithPhasedCommands,
                                      parameterHasAssociatedPhases)
          THEN Throw(a.c, [kind |-> "only associated with phased commands, but lists no associated phases",
                           longName |-> normalizedParameter.longName])
        ELSE a.c

RECURSIVE ProcessParameters(_, _, _)
ProcessParameters(c, parametersJson, i) ==
  IF i > Len(parametersJson) \/ c.error # NoError THEN c
  ELSE ProcessParameters(ProcessParameter(c, parametersJson[i]), parametersJson, i + 1)

\* new CommandLineConfiguration(commandLineJson, options).  An absent
\* "phases", "commands" or "parameters" property is the empty list.
Constructor(json, opts) ==
  LET c1 == ConstructPhases(EmptyConfiguration, json.phases)
      c2 == IF c1.error # NoError THEN c1 ELSE ProcessCommands(c1, json.commands, 1)
      c3 == IF c2.error # NoError THEN c2 ELSE AddDefaultCommands(c2, opts)
      c4 == IF c3.error # NoError THEN c3 ELSE ProcessParameters(c3, json.parameters, 1)
  IN c4

\* tryLoadFromFile constructs with { doNotIncludeDefaultBuildCommands: true },
\* loadFromFileOrDefault with { doNotIncludeDefaultBuildCommands: false }.
tryLoadFromFileOptions == [doNotIncludeDefaultBuildCommands |-> TRUE]

loadFromFileOrDefaultOptions == [doNotIncludeDefaultBuildCommands |-> FALSE]

LoaderOptions == {tryLoadFromFileOptions, loadFromFileOrDefaultOptions}

(***************************************************************************)
(* Inputs of the constructor                                               *)
(***************************************************************************)
PhaseLetters == <<"a", "b", "c", "d">>

\* The i-th phase name used in the inputs: "_phase:a", "_phase:b", ...
PhaseNameOf(i) == PhaseNamePrefix \o <<PhaseLetters[i]>>

\* The subsets of S with at most n elements.
RECURSIVE SubsetsUpTo(_, _)
SubsetsUpTo(S, n) ==
  IF n = 0 THEN {{}}
  ELSE LET smaller == SubsetsUpTo(S, n - 1) IN
         smaller \cup {e \cup {x} : e \in smaller, x \in S}

\* A set of numbers as an ascending sequence.
RECURSIVE Ascending(_)
Ascending(S) ==
  IF S = {} THEN <<>>
  ELSE LET m == CHOOSE x \in S : \A y \in S : x <= y IN <<m>> \o Ascending(S \ {m})

\* A dependency entry <<i, which, j>>: declared phase i lists phase name j under which.
DependencyEntries(k) == (1..k) \X {"self", "upstream"} \X (1..MaxPhases)

DependencyNames(entries, i, which) ==
  LET targets == Ascending({j \in 1..MaxPhases : <<i, which, j>> \in entries})
  IN [n \in DOMAIN targets |-> PhaseNameOf(targets[n])]

\* The "phases" property: k declared phases with the given dependency entries.
PhasesJson(k, entries) ==
  [i \in 1..k |->
     [name |-> PhaseNameOf(i),
      dependencies |-> [self |-> DependencyNames(entries, i, "self"),
                        upstream |-> DependencyNames(entries, i, "upstream")],
      ignoreMissingScript |-> FALSE,
      allowWarningsOnSuccess |-> FALSE]]

PhasesJsonInputs ==
  UNION {{PhasesJson(k, entries) : entries \in SubsetsUpTo(DependencyEntries(k), MaxPhaseDeps)} :
           k \in 0..MaxPhases}

MyBulkCommandName == <<"m", "y", "-", "b", "u", "l", "k">>

MyPhasedCommandName == <<"m", "y", "-", "p", "h", "a", "s", "e", "d">>

MyGlobalCommandName == <<"m", "y", "-", "g", "l", "o", "b", "a", "l">>

\* The "commands" property: no command, or one bulk, phased or global command;
\* the phased command names one or two phases (possibly the same one twice).
CommandsJsonInputs ==
  {<<>>}
    \cup {<<[CommandJson(BulkCommandKind, MyBulkCommandName) EXCEPT
               !.ignoreDependencyOrder = ignore]>> : ignore \in BOOLEAN}
    \cup {<<[CommandJson(PhasedCommandKind, MyPhasedCommandName) EXCEPT
               !.phases = <<PhaseNameOf(i)>>]>> : i \in 1..MaxPhases}
    \cup {<<[CommandJson(PhasedCommandKind, MyPhasedCommandName) EXCEPT
               !.phases = <<PhaseNameOf(i), PhaseNameOf(j)>>]>> :
             i \in 1..MaxPhases, j \in 1..MaxPhases}
    \cup {<<CommandJson(GlobalCommandKind, MyGlobalCommandName)>>}

\* The inputs for the commands and parameters stages: two declared phases,
\* "_phase:a" with self dependency "_phase:b", and commands with pairwise
\* different names among "build", "rebuild" and a custom name.
ConfigPhasesJson == PhasesJson(2, {<<1, "self", 2>>})

CustomCommandName == <<"d", "e", "p", "l", "o", "y">>

ConfigCommandNames == <<BuildCommandName, RebuildCommandName, CustomCommandName>>

\* What a declaration of the inputs sets: the kind and the two flags.
CommandVariants ==
  {[kind |-> BulkCommandKind, ignoreDependencyOrder |-> ignore,
    safeForSimultaneousRushProcesses |-> FALSE] : ignore \in BOOLEAN}
    \cup {[kind |-> BulkCommandKind, ignoreDependencyOrder |-> FALSE,
           safeForSimultaneousRushProcesses |-> TRUE]}
    \cup {[kind |-> PhasedCommandKind, ignoreDependencyOrder |-> FALSE,
           safeForSimultaneousRushProcesses |-> safe] : safe \in BOOLEAN}
    \cup {[kind |-> GlobalCommandKind, ignoreDependencyOrder |-> FALSE,
           safeForSimultaneousRushProcesses |-> FALSE]}

ConfigCommandJson(name, variant) ==
  [CommandJson(variant.kind, name) EXCEPT
     !.phases = IF variant.kind = PhasedCommandKind THEN <<PhaseNameOf(1)>> ELSE <<>>,
     !.ignoreDependencyOrder = variant.ignoreDependencyOrder,
     !.safeForSimultaneousRushProcesses = variant.safeForSimultaneousRushProcesses]

\* The lengths of the "commands" property in the inputs.
CommandCounts == 0..(IF MaxCommands < Len(ConfigCommandNames)
                       THEN MaxCommands ELSE Len(ConfigCommandNames))

IsInjective(f) == \A i, j \in DOMAIN f : f[i] = f[j] => i = j

ParameterLongName == <<"-", "-", "x">>

ChoiceAlternatives == <<[name |-> <<"x">>], [name |-> <<"y">>]>>

\* The associatedCommands lists of the inputs: up to MaxAssociatedCommands of
\* the three command names, in their order.
AssociatedCommandsInputs ==
  {LET picked == Ascending(S) IN [n \in DOMAIN picked |-> ConfigCommandNames[picked[n]]] :
     S \in SubsetsUpTo(DOMAIN ConfigCommandNames, MaxAssociatedCommands)}

\* The associatedPhases lists of the inputs: none, a declared phase, or a
\* phase that is not declared.
AssociatedPhasesInputs == {<<>>, <<PhaseNameOf(1)>>, <<PhaseNameOf(3)>>}

\* The defaultValue property of the choice parameters of the inputs: absent,
\* an alternative, a string that is no alternative, or the empty string.
ChoiceDefaultValues == {<<>>, <<<<"x">>>>, <<<<"z">>>>, <<<<>>>>}

\* The "parameters" property: no parameter, or one flag parameter, or one
\* choice parameter whose default value is or is not among its alternatives.
ParametersJsonInputs ==
  {<<>>}
    \cup {<<[ParameterJson("flag", ParameterLongName) EXCEPT
               !.associatedCommands = commands, !.associatedPhases = phases]>> :
             commands \in AssociatedCommandsInputs, phases \in AssociatedPhasesInputs}
    \cup {<<[ParameterJson("choice", ParameterLongName) EXCEPT
               !.associatedCommands = commands, !.associatedPhases = <<PhaseNameOf(1)>>,
               !.alternatives = ChoiceAlternatives, !.defaultValue = default]>> :
             commands \in AssociatedCommandsInputs, default \in ChoiceDefaultValues}

ConfigInit ==
  /\ SchedIdle
  /\ AsyncIdle
  /\ CvIdle
  /\ GitIdle
  /\ cfgPc = "start"
  /\ \E len \in CommandCounts :
       \E names \in [1..len -> DOMAIN ConfigCommandNames] :
         \E variants \in [1..len -> CommandVariants] :
           \E parameters \in ParametersJsonInputs :
             /\ IsInjective(names)
             /\ commandLineJson =
                  [phases |-> ConfigPhasesJson,
                   commands |-> [n \in 1..len |->
                                   ConfigCommandJson(ConfigCommandNames[names[n]], variants[n])],
                   parameters |-> parameters]
  /\ options \in LoaderOptions
  /\ config = EmptyConfiguration
  /\ projectDependencies = <<>>
  /\ operations = {}
  /\ operationDependencies = <<>>
  /\ operationConsumers = <<>>

\* The phases used by the inputs of the cycle check.
CyclePhases == 1..MaxCyclePhases

\* k declared phases; phase i lists the phases of self[i] as self dependencies
\* and, when ring is set, the next phase (the first one after the last) as
\* upstream dependency, so that the upstream dependencies form a cycle.
CyclePhasesJson(k, self, ring) ==
  [i \in 1..k |->
     [name |-> PhaseNameOf(i),
      dependencies |->
        [self |-> LET targets == Ascending(self[i])
                  IN [n \in DOMAIN targets |-> PhaseNameOf(targets[n])],
         upstream |-> IF ring THEN <<PhaseNameOf((i % k) + 1)>> ELSE <<>>],
      ignoreMissingScript |-> FALSE,
      allowWarningsOnSuccess |-> FALSE]]

\* The cycle check is studied on configurations that declare phases only.
CycleInit ==
  /\ SchedIdle
  /\ AsyncIdle
  /\ CvIdle
  /\ GitIdle
  /\ cfgPc = "start"
  /\ \E k \in CyclePhases : \E self \in [1..k -> SUBSET (1..k)] : \E ring \in BOOLEAN :
       commandLineJson = [phases |-> CyclePhasesJson(k, self, ring), commands |-> <<>>,
                          parameters |-> <<>>]
  /\ options = tryLoadFromFileOptions
  /\ config = EmptyConfiguration
  /\ projectDependencies = <<>>
  /\ operations = {}
  /\ operationDependencies = <<>>
  /\ operationConsumers = <<>>

(***************************************************************************)
(* Operation graph builder (spec 4.3)                                      *)
(***************************************************************************)
Projects == 1..MaxProjects

\* Every acyclic project graph, up to renaming: a project depends on lower-numbered ones.
ProjectGraphs ==
  {d \in [Projects -> SUBSET Projects] : \A p \in Projects : d[p] \subseteq 1..(p - 1)}

Operation(phase, project) == [phase |-> phase, project |-> project]

\* Mutant: operations are created for the first project only.
OperationsOfFirstProject(c, command) ==
  IF command.commandKind = GlobalCommandKind
    THEN {Operation(Undefined, Undefined)}
    ELSE {Operation(phase, project) :
            phase \in SeqRange(c.phaseSetObjects[command.phases]), project \in {1}}

\* One operation per (phase, project) pair; a global command has a single
\* operation without project dimension.
OperationsOf(c, command) ==
  IF command.commandKind = GlobalCommandKind
    THEN {Operation(Undefined, Undefined)}
    ELSE {Operation(phase, project) :
            phase \in SeqRange(c.phaseSetObjects[command.phases]), project \in Projects}

\* Operation(phase, project) depends on Operation(selfDep, project).
SelfEdges(c, op) ==
  {Operation(s, op.project) : s \in SeqRange(c.phaseObjects[op.phase].dependencies.self)}

\* Operation(phase, project) depends on Operation(upstreamDep, p2) for every
\* direct upstream project p2 of project.
UpstreamEdges(c, projectDeps, op) ==
  {Operation(u, p2) : u \in SeqRange(c.phaseObjects[op.phase].dependencies.upstream),
                      p2 \in projectDeps[op.project]}

OperationDependenciesOf(c, projectDeps, ops) ==
  [op \in ops |->
     IF op.phase = Undefined THEN {}
     ELSE SelfEdges(c, op) \cup UpstreamEdges(c, projectDeps, op)]

\* The consumers attribute: an operation's consumers are the operations of
\* the graph that were wired to depend on it.
OperationConsumersOf(ops, dependencies) ==
  [op \in ops |-> {consumer \in ops : op \in dependencies[consumer]}]

\* What is left of a graph after operations without pending dependencies are
\* removed again and again: empty exactly when the graph has no cycle.
RECURSIVE CyclicCore(_, _)
CyclicCore(nodes, dependencies) ==
  LET free == {n \in nodes : dependencies[n] \cap nodes = {}} IN
    IF free = {} THEN nodes ELSE CyclicCore(nodes \ free, dependencies)

IsAcyclic(nodes, dependencies) == CyclicCore(nodes, dependencies) = {}

GraphInit ==
  /\ SchedIdle
  /\ AsyncIdle
  /\ CvIdle
  /\ GitIdle
  /\ cfgPc = "start"
  /\ commandLineJson \in [phases : PhasesJsonInputs, commands : CommandsJsonInputs,
                           parameters : {<<>>}]
  /\ options \in LoaderOptions
  /\ config = EmptyConfiguration
  /\ projectDependencies \in ProjectGraphs
  /\ operations = {}
  /\ operationDependencies = <<>>
  /\ operationConsumers = <<>>

\* new CommandLineConfiguration(commandLineJson, options): it returns the
\* instance or throws.
Construct ==
  /\ cfgPc = "start"
  /\ config' = Constructor(commandLineJson, options)
  /\ cfgPc' = IF config'.error = NoError THEN "constructed" ELSE "error"
  /\ UNCHANGED <<commandLineJson, options, projectDependencies, operations,
                 operationDependencies, operationConsumers>>
  /\ UNCHANGED <<schedVars, asyncVars, cvVars, gitVars>>

\* The operation graph of one invocation of a command, over all projects.
BuildOperationGraph(name) ==
  /\ cfgPc = "constructed"
  /\ MapHas(config.commands, name)
  /\ LET ops == OperationsOf(config, MapGet(config.commands, name))
         dependencies == OperationDependenciesOf(config, projectDependencies, ops)
     IN
       /\ operations' = ops
       /\ operationDependencies' = dependencies
       /\ operationConsumers' = OperationConsumersOf(ops, dependencies)
  /\ cfgPc' = "graph"
  /\ UNCHANGED <<commandLineJson, options, config, projectDependencies>>
  /\ UNCHANGED <<schedVars, asyncVars, cvVars, gitVars>>

CommandNames ==
  {BuildCommandName, RebuildCommandName, MyBulkCommandName, MyPhasedCommandName,
   MyGlobalCommandName}

BuildOperationGraphSome == \E name \in CommandNames : BuildOperationGraph(name)

NextGraph == Construct \/ BuildOperationGraphSome

SpecGraph == GraphInit /\ [][NextGraph]_vars

NextCycle == Construct

NextConfig == Construct

SpecConfig == ConfigInit /\ [][NextConfig]_vars

SpecCycle == CycleInit /\ [][NextCycle]_vars

(***************************************************************************)
(* Inputs with references that do not resolve, repeated names and watch    *)
(* options                                                                 *)
(***************************************************************************)
\* The sequences over S of length at most n.
SeqsUpTo(S, n) == UNION {[1..k -> S] : k \in 0..n}

OtherCommandName == <<"t", "e", "s", "t">>

\* A command name that no input declares.
MissingCommandName == <<"m", "i", "s", "s", "i", "n", "g">>

\* The phase names the inputs declare, and one that no input declares.
RefPhaseNames == {PhaseNameOf(1), PhaseNameOf(2)}

UndeclaredPhaseName == PhaseNameOf(3)

RefDependencyLists == {<<>>} \cup {<<name>> : name \in RefPhaseNames \cup {UndeclaredPhaseName}}

RefPhaseDeclarations ==
  {[name |-> name,
    dependencies |-> [self |-> self, upstream |-> upstream],
    ignoreMissingScript |-> FALSE,
    allowWarningsOnSuccess |-> FALSE] :
     name \in RefPhaseNames, self \in RefDependencyLists, upstream \in RefDependencyLists}

\* A phased command that names "_phase:a" and watches "_phase:b".
RefWatchedCommand ==
  [CommandJson(PhasedCommandKind, CustomCommandName) EXCEPT
     !.phases = <<PhaseNameOf(1)>>,
     !.watchOptions = <<[alwaysWatch |-> FALSE, watchPhases |-> <<PhaseNameOf(2)>>]>>]

\* What the "phases" property of a phased command names in the inputs: a
\* declared phase, the undeclared one, or the name of a command.
RefCommandPhaseLists ==
  {<<name>> : name \in RefPhaseNames \cup {UndeclaredPhaseName, CustomCommandName}}

RefWatchOptions ==
  {<<>>} \cup {<<[alwaysWatch |-> always, watchPhases |-> <<name>>]>> :
                 always \in {FALSE}, name \in RefPhaseNames \cup {UndeclaredPhaseName}}

RefCommandDeclarations ==
  {[CommandJson(PhasedCommandKind, name) EXCEPT !.phases = phases, !.watchOptions = watch] :
     name \in {CustomCommandName, OtherCommandName},
     phases \in RefCommandPhaseLists, watch \in RefWatchOptions}
    \cup {[CommandJson(BulkCommandKind, name) EXCEPT !.watchForChanges = watch] :
            name \in {CustomCommandName, OtherCommandName}, watch \in BOOLEAN}
    \cup {CommandJson(GlobalCommandKind, name) : name \in {CustomCommandName, OtherCommandName}}

\* The commands the parameters of the inputs are associated with.
RefParameterCommands ==
  <<CommandJson(BulkCommandKind, CustomCommandName),
    [CommandJson(PhasedCommandKind, OtherCommandName) EXCEPT !.phases = <<PhaseNameOf(1)>>]>>

RefParameters ==
  {[ParameterJson("flag", ParameterLongName) EXCEPT
      !.associatedCommands = commands, !.associatedPhases = phases] :
     commands \in SeqsUpTo({CustomCommandName, OtherCommandName, MissingCommandName},
                           MaxAssociatedCommands),
     phases \in {<<>>} \cup RefCommandPhaseLists}

\* Three families of inputs: the declared phases vary (names may repeat,
\* dependencies may name an undeclared phase); the declared commands vary
\* over two declared phases, "_phase:a" with self dependency "_phase:b"
\* (names may repeat, phases and watchPhases may name an undeclared phase);
\* one parameter varies over fixed phases and commands.
ReferencesInit ==
  /\ SchedIdle
  /\ AsyncIdle
  /\ CvIdle
  /\ GitIdle
  /\ cfgPc = "start"
  /\ \/ \E phases \in SeqsUpTo(RefPhaseDeclarations, MaxPhases) :
          \E commands \in {<<>>, <<RefWatchedCommand>>} :
            commandLineJson = [phases |-> phases, commands |-> commands, parameters |-> <<>>]
     \/ \E commands \in SeqsUpTo(RefCommandDeclarations, MaxCommands) :
          commandLineJson = [phases |-> ConfigPhasesJson, commands |-> commands,
                             parameters |-> <<>>]
     \/ \E parameter \in RefParameters :
          commandLineJson = [phases |-> ConfigPhasesJson, commands |-> RefParameterCommands,
                             parameters |-> <<parameter>>]
  /\ options \in LoaderOptions
  /\ config = EmptyConfiguration
  /\ projectDependencies = <<>>
  /\ operations = {}
  /\ operationDependencies = <<>>
  /\ operationConsumers = <<>>

NextReferences == Construct

SpecReferences == ReferencesInit /\ [][NextReferences]_vars

(***************************************************************************)
(* Inputs with commands named like phases                                  *)
(***************************************************************************)
\* The names of the bulk commands of the inputs: a custom name and the
\* names of the two declared phases.
RegistryBulkCommandNames == {CustomCommandName, PhaseNameOf(1), PhaseNameOf(2)}

\* Bulk commands, and a phased command "test" that names a declared phase or
\* a bulk command and may watch a declared phase.
RegistryCommandDeclarations ==
  {[CommandJson(BulkCommandKind, name) EXCEPT !.watchForChanges = watch] :
     name \in RegistryBulkCommandNames, watch \in BOOLEAN}
    \cup {[CommandJson(PhasedCommandKind, OtherCommandName) EXCEPT
             !.phases = <<name>>, !.watchOptions = watch] :
            name \in {PhaseNameOf(1), PhaseNameOf(2), CustomCommandName},
            watch \in {<<>>, <<[alwaysWatch |-> FALSE, watchPhases |-> <<PhaseNameOf(1)>>]>>}}

\* The declared phases are "_phase:a" with self dependency "_phase:b".
RegistryInit ==
  /\ SchedIdle
  /\ AsyncIdle
  /\ CvIdle
  /\ GitIdle
  /\ cfgPc = "start"
  /\ \E commands \in SeqsUpTo(RegistryCommandDeclarations, MaxCommands) :
       commandLineJson = [phases |-> ConfigPhasesJson, commands |-> commands,
                          parameters |-> <<>>]
  /\ options \in LoaderOptions
  /\ config = EmptyConfiguration
  /\ projectDependencies = <<>>
  /\ operations = {}
  /\ operationDependencies = <<>>
  /\ operationConsumers = <<>>

SpecRegistry == RegistryInit /\ [][Construct]_vars


(***************************************************************************)
(* CommandLineConfiguration.loadFromFileOrDefault                          *)
(*                                                                         *)
(* Before the constructor runs, a command of the parsed file is an object  *)
(* whose properties may be absent: every property is <<>> (absent) or      *)
(* <<value>>.                                                              *)
(***************************************************************************)
\* {}
EmptyObject ==
  [commandKind |-> <<>>,
   name |-> <<>>,
   summary |-> <<>>,
   description |-> <<>>,
   safeForSimultaneousRushProcesses |-> <<>>,
   enableParallelism |-> <<>>,
   incremental |-> <<>>,
   ignoreDependencyOrder |-> <<>>,
   phases |-> <<>>]

\* DEFAULT_BUILD_COMMAND_JSON and DEFAULT_REBUILD_COMMAND_JSON, property by property
DefaultBuildCommandObject ==
  [EmptyObject EXCEPT
     !.commandKind = <<BulkCommandKind>>,
     !.name = <<BuildCommandName>>,
     !.summary = <<"Build all projects that haven't been built, or have changed since they were last built.">>,
     !.description = <<"This command is similar to \"rush rebuild\", except that ...">>,
     !.safeForSimultaneousRushProcesses = <<FALSE>>,
     !.enableParallelism = <<TRUE>>,
     !.incremental = <<TRUE>>]

DefaultRebuildCommandObject ==
  [EmptyObject EXCEPT
     !.commandKind = <<BulkCommandKind>>,
     !.name = <<RebuildCommandName>>,
     !.summary = <<"Clean and rebuild the entire set of projects.">>,
     !.description = <<"This command assumes that the package.json file for each project contains ...">>,
     !.safeForSimultaneousRushProcesses = <<FALSE>>,
     !.enableParallelism = <<TRUE>>,
     !.incremental = <<FALSE>>]

\* Mutant: a property the target has already is kept.
SpreadKeepingTarget(target, source) ==
  [property \in DOMAIN target |->
     IF target[property] # <<>> THEN target[property] ELSE source[property]]

\* { ...target, ...source }: every property of source is copied over target.
Spread(target, source) ==
  [property \in DOMAIN target |->
     IF source[property] # <<>> THEN source[property] ELSE target[property]]

\* The two nested switch statements: the defaults of a phased or bulk command
\* named "build" or "rebuild", {} for every other command.
CommandDefaultDefinition(command) ==
  IF command.commandKind[1] \in {PhasedCommandKind, BulkCommandKind}
    THEN IF command.name[1] = BuildCommandName THEN DefaultBuildCommandObject
         ELSE IF command.name[1] = RebuildCommandName THEN DefaultRebuildCommandObject
         ELSE EmptyObject
    ELSE EmptyObject

\* commandLineJson.commands[i] = { ...commandDefaultDefinition, ...command }
MergeDefaults(commands) ==
  [i \in DOMAIN commands |->
     Spread(Spread(EmptyObject, CommandDefaultDefinition(commands[i])), commands[i])]

\* What the constructor reads from a command object: an absent flag is
\* falsy, an absent phases property is undefined.
AsCommandJson(object) ==
  [CommandJson(object.commandKind[1], object.name[1]) EXCEPT
     !.phases = IF object.phases = <<>> THEN <<>> ELSE object.phases[1],
     !.phasesIsUndefined = (object.phases = <<>>),
     !.ignoreDependencyOrder = object.ignoreDependencyOrder = <<TRUE>>,
     !.safeForSimultaneousRushProcesses = object.safeForSimultaneousRushProcesses = <<TRUE>>,
     !.enableParallelism = object.enableParallelism = <<TRUE>>,
     !.incremental = object.incremental = <<TRUE>>]

\* The parsed file has a commands property.
HasCommands(json) == "commands" \in DOMAIN json

\* commandLineJson?.phases, ?.commands and ?.parameters as the constructor
\* reads them
AsCommandLineJson(json) ==
  [phases |-> IF "phases" \in DOMAIN json THEN json.phases ELSE <<>>,
   commands |-> IF HasCommands(json)
                  THEN [i \in DOMAIN json.commands |-> AsCommandJson(json.commands[i])]
                  ELSE <<>>,
   parameters |-> IF "parameters" \in DOMAIN json THEN json.parameters ELSE <<>>]

\* What is at jsonFilePath when it is not a file that JsonFile.load parses:
\* no path is given, no file exists, the file is not JSON.
NoJsonFilePath == [jsonFilePath |-> "undefined"]

MissingJsonFile == [jsonFile |-> "does not exist"]

MalformedJsonFile == [jsonFile |-> "is not JSON"]

\* JsonFile.load(jsonFilePath) returns an object.
IsParsed(file) == file \notin {NoJsonFilePath, MissingJsonFile, MalformedJsonFile}

\* commandLineJson stays undefined.
UndefinedCommandLineJson == [jsonFile |-> "undefined"]

\* The optional properties a declaration of the inputs specifies: none, all
\* of them with values that differ from the defaults of "build", the summary
\* alone, or two flags with values that differ from the defaults of "rebuild".
FileCommandVariants ==
  {EmptyObject,
   [EmptyObject EXCEPT !.summary = <<"repo summary">>,
                       !.safeForSimultaneousRushProcesses = <<FALSE>>,
                       !.enableParallelism = <<FALSE>>,
                       !.incremental = <<FALSE>>],
   [EmptyObject EXCEPT !.summary = <<"repo summary">>],
   [EmptyObject EXCEPT !.enableParallelism = <<FALSE>>, !.incremental = <<TRUE>>]}

FileCommandKinds == {BulkCommandKind, PhasedCommandKind, GlobalCommandKind}

FileCommandObject(name, kind, variant) ==
  [variant EXCEPT
     !.commandKind = <<kind>>,
     !.name = <<name>>,
     !.phases = IF kind = PhasedCommandKind THEN <<<<PhaseNameOf(1)>>>> ELSE <<>>]

\* Files without declared commands to merge: no path, no file, a file that
\* is not JSON, a file without the commands property, and a file whose
\* phased command has no phases property.
OtherJsonFiles ==
  {NoJsonFilePath,
   MissingJsonFile,
   MalformedJsonFile,
   [phases |-> ConfigPhasesJson, parameters |-> <<>>],
   [phases |-> ConfigPhasesJson,
    commands |-> <<[EmptyObject EXCEPT !.commandKind = <<PhasedCommandKind>>,
                                       !.name = <<CustomCommandName>>]>>,
    parameters |-> <<>>]}

\* What is at jsonFilePath: one of OtherJsonFiles, or a file with the phases
\* of ConfigPhasesJson and commands with pairwise different names among
\* "build", "rebuild" and a custom name.
LoadInit ==
  /\ SchedIdle
  /\ AsyncIdle
  /\ CvIdle
  /\ GitIdle
  /\ cfgPc = "file"
  /\ \/ commandLineJson \in OtherJsonFiles
     \/ \E len \in CommandCounts :
          \E names \in [1..len -> DOMAIN ConfigCommandNames] :
            \E kinds \in [1..len -> FileCommandKinds] :
              \E variants \in [1..len -> FileCommandVariants] :
                /\ IsInjective(names)
                /\ commandLineJson =
                     [phases |-> ConfigPhasesJson,
                      commands |-> [n \in 1..len |->
                                      FileCommandObject(ConfigCommandNames[names[n]],
                                                        kinds[n], variants[n])],
                      parameters |-> <<>>]
  /\ options = loadFromFileOrDefaultOptions
  /\ config = EmptyConfiguration
  /\ projectDependencies = <<>>
  /\ operations = {}
  /\ operationDependencies = <<>>
  /\ operationConsumers = <<>>

\* loadFromFileOrDefault(jsonFilePath).  An error of JsonFile.load other than
\* "does not exist" is thrown again.  Without a path or a file the instance
\* is constructed from undefined.  The commands of a parsed file are merged
\* in place with the default build settings and the merged object is given
\* to _jsonSchema.validateObject, which throws or returns (accepted: the
\* schema is not part of the sources); then the instance is constructed.
LoadFromFileOrDefault ==
  /\ cfgPc = "file"
  /\ \E accepted \in BOOLEAN :
       LET merges == IsParsed(commandLineJson) /\ HasCommands(commandLineJson)
           thrown == IF commandLineJson = MalformedJsonFile
                       THEN [kind |-> "JsonFile.load error"]
                     ELSE IF merges /\ ~accepted
                       THEN [kind |-> "JsonSchema.validateObject error"]
                     ELSE NoError
       IN /\ merges \/ accepted
          /\ commandLineJson' =
               IF merges
                 THEN [commandLineJson EXCEPT !.commands = MergeDefaults(@)]
               ELSE IF commandLineJson \in {NoJsonFilePath, MissingJsonFile}
                 THEN UndefinedCommandLineJson
               ELSE commandLineJson
          /\ config' = IF thrown # NoError
                         THEN Throw(EmptyConfiguration, thrown)
                         ELSE Constructor(AsCommandLineJson(commandLineJson'),
                                          loadFromFileOrDefaultOptions)
  /\ cfgPc' = IF config'.error = NoError THEN "constructed" ELSE "error"
  /\ UNCHANGED <<options, projectDependencies, operations,
                 operationDependencies, operationConsumers>>
  /\ UNCHANGED <<schedVars, asyncVars, cvVars, gitVars>>

NextLoad == LoadFromFileOrDefault

SpecLoad == LoadInit /\ [][NextLoad]_vars

(***************************************************************************)
(* A run of "build" or "rebuild" from the configuration to the verdict     *)
(* (spec 4.2, 4.3, 4.4)                                                    *)
(***************************************************************************)
\* The repositories of the runs: no command is declared, or "build" or
\* "rebuild" is declared as a bulk command.
BuildRunCommandsJson ==
  {<<>>}
    \cup {<<[CommandJson(BulkCommandKind, name) EXCEPT
               !.enableParallelism = TRUE, !.ignoreDependencyOrder = ignore]>> :
            name \in {BuildCommandName, RebuildCommandName}, ignore \in BOOLEAN}

BuildRunInit ==
  /\ SchedIdle
  /\ AsyncIdle
  /\ CvIdle
  /\ GitIdle
  /\ cfgPc = "start"
  /\ \E commands \in BuildRunCommandsJson :
       commandLineJson = [phases |-> <<>>, commands |-> commands, parameters |-> <<>>]
  /\ options = loadFromFileOrDefaultOptions
  /\ config = EmptyConfiguration
  /\ projectDependencies \in ProjectGraphs
  /\ operations = {}
  /\ operationDependencies = <<>>
  /\ operationConsumers = <<>>

\* The scheduler numbers the operations of a command with a single phase by
\* their projects.
OperationNumber(op) == op.project

\* The executor is handed the operation graph: every operation is Ready and
\* the operations without dependencies form the ready-set.
ExecuteOperations ==
  /\ cfgPc = "graph"
  /\ verdict = "idle"
  /\ \A op \in operations : OperationNumber(op) \in Ops
  /\ \A op1, op2 \in operations : OperationNumber(op1) = OperationNumber(op2) => op1 = op2
  /\ deps' = [o \in Ops |->
                UNION {{OperationNumber(d) : d \in operationDependencies[op] \cap operations} :
                         op \in {x \in operations : OperationNumber(x) = o}}]
  /\ status' = [o \in Ops |-> "Ready"]
  /\ readySet' = {OperationNumber(op) :
                    op \in {x \in operations : operationDependencies[x] \cap operations = {}}}
  /\ \E p \in 1..MaxParallelism : parallelism' = p
  /\ cancelled' = FALSE
  /\ hasAnyFailures' = FALSE
  /\ verdict' = "none"
  /\ invoked' = {}
  /\ runs' = [o \in Ops |-> 0]
  /\ siblings' = {}
  /\ UNCHANGED <<asyncVars, cfgVars, cvVars, gitVars>>

BuildOperationGraphOfBuild == BuildOperationGraph(BuildCommandName)

BuildOperationGraphOfRebuild == BuildOperationGraph(RebuildCommandName)

\* No runner reports a failure.
CompleteWithoutFailure == \E o \in Ops : \E r \in NonBlockingTerminal : Complete(o, r)

NextBuildRun ==
  \/ Construct
  \/ BuildOperationGraphOfBuild
  \/ BuildOperationGraphOfRebuild
  \/ ExecuteOperations
  \/ DispatchSome
  \/ CompleteWithoutFailure
  \/ Return

\* Every step of the run is eventually taken: the command line parser calls
\* them in sequence, and the scheduler dispatches eligible operations and
\* every started runner returns.
BuildRunSpec ==
  /\ BuildRunInit
  /\ [][NextBuildRun]_vars
  /\ WF_vars(Construct)
  /\ WF_vars(BuildOperationGraphOfBuild \/ BuildOperationGraphOfRebuild)
  /\ WF_vars(ExecuteOperations)
  /\ WF_vars(DispatchSome)
  /\ WF_vars(CompleteWithoutFailure)
  /\ WF_vars(Return)

(***************************************************************************)
(* Inputs of the phase name validation                                     *)
(***************************************************************************)
\* The characters of the names: lowercase letters, a digit, the hyphen, an
\* uppercase letter and a character of the prefix.
NameAlphabet == {"a", "z", "0", "-", "A", ":"}

\* What the names start with: the required prefix, nothing, or the prefix
\* without its colon.
NamePrefixes == {PhaseNamePrefix, <<>>, SubSeq(PhaseNamePrefix, 1, Len(PhaseNamePrefix) - 1)}

\* One declared phase whose name is a prefix followed by at most
\* MaxNameLength characters.
NamesInit ==
  /\ SchedIdle
  /\ AsyncIdle
  /\ CvIdle
  /\ GitIdle
  /\ cfgPc = "start"
  /\ \E prefix \in NamePrefixes : \E tail \in SeqsUpTo(NameAlphabet, MaxNameLength) :
       commandLineJson =
         [phases |-> <<[name |-> prefix \o tail,
                        dependencies |-> [self |-> <<>>, upstream |-> <<>>],
                        ignoreMissingScript |-> FALSE,
                        allowWarningsOnSuccess |-> FALSE]>>,
          commands |-> <<>>,
          parameters |-> <<>>]
  /\ options \in LoaderOptions
  /\ config = EmptyConfiguration
  /\ projectDependencies = <<>>
  /\ operations = {}
  /\ operationDependencies = <<>>
  /\ operationConsumers = <<>>

NextNames == Construct

SpecNames == NamesInit /\ [][NextNames]_vars

(***************************************************************************)
(* CommonVersionsConfiguration                                             *)
(* (libraries/rush-lib/src/api/CommonVersionsConfiguration.ts)             *)
(*                                                                         *)
(* The three tables are JavaScript Maps behind a ProtectableMap, whose     *)
(* view calls the onSet hook before it stores an entry; a table of the     *)
(* JSON file is the sequence of its [key, value] properties.  An optional  *)
(* property of the JSON file is <<>> when absent and <<value>> otherwise.  *)
(***************************************************************************)
\* The dependency names of the inputs; the empty name is not a package name.
PackageNames == {"a", "b", ""}

\* The SemVer range specifiers of the inputs.
VersionRanges == {"1", "2"}

PreferredVersionsTable == "preferredVersions"

XstitchPreferredVersionsTable == "xstitchPreferredVersions"

AllowedAlternativeVersionsTable == "allowedAlternativeVersions"

\* PackageNameParsers.permissive.validate(key) accepts the name.
IsValidPackageName(key) == key # ""

\* The fields of the instance that the set hooks and save() work on.
Instance ==
  [preferredVersions |-> preferredVersions,
   xstitchPreferredVersions |-> xstitchPreferredVersions,
   allowedAlternativeVersions |-> allowedAlternativeVersions,
   modified |-> modified]

SetInstance(c) ==
  /\ preferredVersions' = c.preferredVersions
  /\ xstitchPreferredVersions' = c.xstitchPreferredVersions
  /\ allowedAlternativeVersions' = c.allowedAlternativeVersions
  /\ modified' = c.modified

\* The instance when the constructor starts to fill it (lines 69-88).
NewInstance ==
  [preferredVersions |-> <<>>,
   xstitchPreferredVersions |-> <<>>,
   allowedAlternativeVersions |-> <<>>,
   modified |-> FALSE]

\* The outcome of a call: the instance after it and the error it threw.
Returns(c) == [c |-> c, error |-> NoError]

Throws(c, message) == [c |-> c, error |-> <<message>>]

\* Mutant: only a set on preferredVersions looks at the other table.
onSetPreferredVersionsOneWay(c, source, key) ==
  IF ~IsValidPackageName(key)
    THEN Throws(c, "invalid package name")
    ELSE IF source = PreferredVersionsTable /\ MapHas(c.xstitchPreferredVersions, key)
           THEN Throws(c, "already added to xstitchPreferredVersions")
           ELSE Returns([c EXCEPT !.modified = TRUE])

onSetPreferredVersions(c, source, key) ==
  IF ~IsValidPackageName(key)
    THEN Throws(c, "invalid package name")
    ELSE IF source = PreferredVersionsTable
           THEN IF MapHas(c.xstitchPreferredVersions, key)
                  THEN Throws(c, "already added to xstitchPreferredVersions")
                  ELSE Returns([c EXCEPT !.modified = TRUE])
           ELSE IF MapHas(c.preferredVersions, key)
                  THEN Throws(c, "already added to preferredVersions")
                  ELSE Returns([c EXCEPT !.modified = TRUE])

onSetAllowedAlternativeVersions(c, key) ==
  IF ~IsValidPackageName(key)
    THEN Throws(c, "invalid package name")
    ELSE Returns([c EXCEPT !.modified = TRUE])

\* The onSet hook the constructor gives to the table (lines 72-88).
OnSet(c, source, key) ==
  IF source = AllowedAlternativeVersionsTable
    THEN onSetAllowedAlternativeVersions(c, key)
    ELSE onSetPreferredVersions(c, source, key)

\* table.set(key, value) on the view of a table: the hook runs, then the
\* entry is stored.
ProtectedSet(c, source, key, value) ==
  LET hook == OnSet(c, source, key)
  IN IF hook.error # NoError
       THEN hook
       ELSE Returns([hook.c EXCEPT ![source] = MapSet(@, key, value)])

\* table.delete(key) on the view of a table: no hook is given for it.
ProtectedDelete(c, source, key) ==
  [c EXCEPT ![source] = SelectSeq(@, LAMBDA entry : entry.key # key)]

RECURSIVE DeserializeEntries(_, _, _)
DeserializeEntries(r, source, entries) ==
  IF r.error # NoError \/ entries = <<>>
    THEN r
    ELSE DeserializeEntries(
           ProtectedSet(r.c, source, Head(entries).key, Head(entries).value),
           source, Tail(entries))

deserializeTable(r, source, object) ==
  IF object = <<>> THEN r ELSE DeserializeEntries(r, source, object[1])

\* The constructor on the JSON of the file, <<>> when the file does not exist.
CommonVersionsConstructor(commonVersionsJson) ==
  IF commonVersionsJson = <<>>
    THEN Returns(NewInstance)
    ELSE LET json == commonVersionsJson[1]
             p == deserializeTable(Returns(NewInstance), PreferredVersionsTable,
                                   json.preferredVersions)
             x == deserializeTable(p, XstitchPreferredVersionsTable,
                                   json.xstitchPreferredVersions)
         IN deserializeTable(x, AllowedAlternativeVersionsTable,
                             json.allowedAlternativeVersions)

\* keys.sort() on the names of the inputs.
SortedPackageNames == <<"", "a", "b">>

serializeTable(map) ==
  LET keys == SelectSeq(SortedPackageNames, LAMBDA key : MapHas(map, key))
  IN [i \in DOMAIN keys |-> [key |-> keys[i], value |-> MapGet(map, keys[i])]]

SerializedOrAbsent(map) == IF Len(map) > 0 THEN <<serializeTable(map)>> ELSE <<>>

serialize(c) ==
  [implicitlyPreferredVersions |-> <<>>,
   preferredVersions |-> SerializedOrAbsent(c.preferredVersions),
   xstitchPreferredVersions |-> SerializedOrAbsent(c.xstitchPreferredVersions),
   allowedAlternativeVersions |-> SerializedOrAbsent(c.allowedAlternativeVersions)]

\* save(): the instance after it, the file after it and the value returned.
save(c, file) ==
  IF c.modified
    THEN [c |-> [c EXCEPT !.modified = FALSE], file |-> <<serialize(c)>>, returned |-> TRUE]
    ELSE [c |-> c, file |-> file, returned |-> FALSE]

\* The record of an operation: what it was, what came of it, and whether an
\* entry has been set through the public tables since the instance was
\* loaded or last saved.
CvOperation(op, source, key, threw, returned, setSince) ==
  [op |-> op, source |-> source, key |-> key, threw |-> threw, returned |-> returned,
   setSince |-> setSince]

Entry(key, value) == [key |-> key, value |-> value]

\* The JSON of a file from its four optional properties.
CommonVersionsJson(implicitly, preferred, xstitch, alternatives) ==
  <<[implicitlyPreferredVersions |-> implicitly, preferredVersions |-> preferred,
     xstitchPreferredVersions |-> xstitch, allowedAlternativeVersions |-> alternatives]>>

\* The files of the inputs: no file, a file without tables, files with
\* tables, a file with one name in both tables and a file with a bad name.
CommonVersionsFiles ==
  {<<>>,
   CommonVersionsJson(<<>>, <<>>, <<>>, <<>>),
   CommonVersionsJson(<<TRUE>>, <<>>, <<>>, <<>>),
   CommonVersionsJson(<<>>, <<<<Entry("a", "1")>>>>, <<>>, <<>>),
   CommonVersionsJson(<<>>, <<>>, <<<<Entry("b", "1")>>>>, <<>>),
   CommonVersionsJson(<<>>, <<>>, <<>>, <<<<Entry("a", <<"1">>)>>>>),
   CommonVersionsJson(<<TRUE>>, <<<<Entry("b", "2"), Entry("a", "1")>>>>, <<>>,
                      <<<<Entry("a", <<"1">>)>>>>),
   CommonVersionsJson(<<>>, <<<<Entry("a", "1")>>>>, <<<<Entry("b", "1")>>>>, <<>>),
   CommonVersionsJson(<<>>, <<<<Entry("a", "1")>>>>, <<<<Entry("a", "2")>>>>, <<>>),
   CommonVersionsJson(<<>>, <<>>, <<<<Entry("", "1")>>>>, <<>>)}

CommonVersionsInit ==
  /\ SchedIdle
  /\ AsyncIdle
  /\ CfgIdle
  /\ GitIdle
  /\ cvPc = "unloaded"
  /\ cvFile \in CommonVersionsFiles
  /\ preferredVersions = <<>>
  /\ xstitchPreferredVersions = <<>>
  /\ allowedAlternativeVersions = <<>>
  /\ modified = FALSE
  /\ cvLast = [op |-> "none", source |-> "", key |-> "", threw |-> FALSE,
               returned |-> FALSE, setSince |-> FALSE]

\* CommonVersionsConfiguration.loadFromFile(jsonFilename)
LoadFromFile ==
  /\ cvPc = "unloaded"
  /\ LET r == CommonVersionsConstructor(cvFile)
     IN /\ SetInstance(r.c)
        /\ cvPc' = IF r.error = NoError THEN "loaded" ELSE "error"
        /\ cvLast' = CvOperation("load", "", "", r.error # NoError, FALSE, FALSE)
  /\ UNCHANGED cvFile
  /\ UNCHANGED <<schedVars, asyncVars, cfgVars, gitVars>>

\* A caller sets an entry of one of the three public tables.
SetEntry(source, key, value) ==
  /\ cvPc = "loaded"
  /\ LET r == ProtectedSet(Instance, source, key, value)
     IN /\ SetInstance(r.c)
        /\ cvLast' = CvOperation("set", source, key, r.error # NoError, FALSE,
                               cvLast.setSince \/ r.error = NoError)
  /\ UNCHANGED <<cvPc, cvFile>>
  /\ UNCHANGED <<schedVars, asyncVars, cfgVars, gitVars>>

\* A caller deletes an entry of one of the three public tables.
DeleteEntry(source, key) ==
  /\ cvPc = "loaded"
  /\ MapHas(Instance[source], key)
  /\ SetInstance(ProtectedDelete(Instance, source, key))
  /\ cvLast' = CvOperation("delete", source, key, FALSE, FALSE, cvLast.setSince)
  /\ UNCHANGED <<cvPc, cvFile>>
  /\ UNCHANGED <<schedVars, asyncVars, cfgVars, gitVars>>

\* A caller calls save().
Save ==
  /\ cvPc = "loaded"
  /\ LET r == save(Instance, cvFile)
     IN /\ SetInstance(r.c)
        /\ cvFile' = r.file
        /\ cvLast' = CvOperation("save", "", "", FALSE, r.returned, FALSE)
  /\ UNCHANGED cvPc
  /\ UNCHANGED <<schedVars, asyncVars, cfgVars, gitVars>>

SetPreferredVersion ==
  \E source \in {PreferredVersionsTable, XstitchPreferredVersionsTable} :
    \E key \in PackageNames : \E value \in VersionRanges : SetEntry(source, key, value)

SetAllowedAlternativeVersions ==
  \E key \in {"a", ""} : SetEntry(AllowedAlternativeVersionsTable, key, <<"1">>)

DeleteSomeEntry ==
  \E source \in {PreferredVersionsTable, XstitchPreferredVersionsTable,
                 AllowedAlternativeVersionsTable} :
    \E key \in PackageNames : DeleteEntry(source, key)

NextCommonVersions ==
  \/ LoadFromFile
  \/ SetPreferredVersion
  \/ SetAllowedAlternativeVersions
  \/ DeleteSomeEntry
  \/ Save

SpecCommonVersions == CommonVersionsInit /\ [][NextCommonVersions]_vars

(***************************************************************************)
(* Git.getGitStatus: the parser of "git status --porcelain=2 --null"       *)
(*                                                                         *)
(* The output is a sequence of characters.  The NUL character is written   *)
(* "NUL".  An entry is a Map from the names of its fields to their values. *)
(***************************************************************************)
Space == " "

Nul == "NUL"

\* The largest number of records in an output
MaxRecords == 2

\* parseInt without a digit to read
NaN == -1

\* A change type character of "." leaves the change type undefined
UndefinedChangeType == "undefined"

\* String.prototype.indexOf(searchString, position) for one character, with
\* positions counted from 0
IndexOf(str, ch, from) ==
  LET hits == {i \in from..(Len(str) - 1) : str[i + 1] = ch}
  IN IF hits = {} THEN -1 ELSE CHOOSE i \in hits : \A j \in hits : i <= j

\* String.prototype.substring(start, end): both ends are clamped to
\* 0..length and swapped when start is the larger one
Substring(str, start, end) ==
  LET Clamp(n) == IF n < 0 THEN 0 ELSE IF n > Len(str) THEN Len(str) ELSE n
      a == Clamp(start)
      b == Clamp(end)
      lo == IF a <= b THEN a ELSE b
      hi == IF a <= b THEN b ELSE a
  IN SubSeq(str, lo + 1, hi)

\* String.prototype.charAt(index)
CharAt(str, index) ==
  IF index >= 0 /\ index < Len(str) THEN <<str[index + 1]>> ELSE <<>>

DigitValue(ch) ==
  CASE ch = "0" -> 0 [] ch = "1" -> 1 [] ch = "2" -> 2 [] ch = "3" -> 3
    [] ch = "4" -> 4 [] ch = "5" -> 5 [] ch = "6" -> 6 [] ch = "7" -> 7
    [] ch = "8" -> 8 [] ch = "9" -> 9

\* parseInt(str, 10) on strings without sign or leading white space: the
\* leading decimal digits, NaN without one
RECURSIVE ParseDigits(_, _)
ParseDigits(str, acc) ==
  IF str = <<>> \/ Head(str) \notin Digits
    THEN acc
    ELSE ParseDigits(Tail(str), 10 * acc + DigitValue(Head(str)))

parseInt(str) ==
  IF str = <<>> \/ Head(str) \notin Digits THEN NaN ELSE ParseDigits(str, 0)

\* The variables of the generator function, as one value
Parser ==
  [pos |-> pos,
   state |-> state,
   isRenamedOrCopied |-> isRenamedOrCopied,
   isUnmerged |-> isUnmerged,
   currentObject |-> currentObject,
   yielded |-> yielded,
   error |-> gitError]

\* The generator function after its first statements
NewParser ==
  [pos |-> 0,
   state |-> "mode",
   isRenamedOrCopied |-> FALSE,
   isUnmerged |-> FALSE,
   currentObject |-> <<>>,
   yielded |-> <<>>,
   error |-> NoError]

ThrowError(g, message, detail) ==
  [g EXCEPT !.error = <<[message |-> message, detail |-> detail]>>]

\* Git._parseGitStatusChangeType: the change type, or the error it throws
parseGitStatusChangeType(str) ==
  CASE str = <<"M">> -> [value |-> "modified", threw |-> FALSE]
    [] str = <<"T">> -> [value |-> "type-changed", threw |-> FALSE]
    [] str = <<"A">> -> [value |-> "added", threw |-> FALSE]
    [] str = <<"D">> -> [value |-> "deleted", threw |-> FALSE]
    [] str = <<"R">> -> [value |-> "renamed", threw |-> FALSE]
    [] str = <<"C">> -> [value |-> "copied", threw |-> FALSE]
    [] str = <<".">> -> [value |-> UndefinedChangeType, threw |-> FALSE]
    [] OTHER -> [value |-> str, threw |-> TRUE]

\* getFieldAndAdvancePos: the field read and the new value of pos
getFieldAndAdvancePos(str, at, delimiter) ==
  LET newPos == IndexOf(str, delimiter, at)
  IN [field |-> Substring(str, at, newPos), pos |-> newPos + 1]

\* A case that stores the next field under a name and moves to a state
StoreField(str, g, name, nextState) ==
  LET f == getFieldAndAdvancePos(str, g.pos, Space)
  IN [g EXCEPT !.pos = f.pos,
               !.currentObject = MapSet(@, name, f.field),
               !.state = nextState]

ModeCase(str, g) ==
  LET f == getFieldAndAdvancePos(str, g.pos, Space)
      g1 == [g EXCEPT !.pos = f.pos]
  IN CASE f.field = <<"?">> ->
            [g1 EXCEPT !.currentObject = MapSet(@, "kind", "untracked"),
                       !.state = "path"]
       [] f.field = <<"1">> ->
            [g1 EXCEPT !.currentObject = MapSet(@, "kind", "changed"),
                       !.state = "changeType"]
       [] f.field = <<"2">> ->
            [g1 EXCEPT !.isRenamedOrCopied = TRUE,
                       !.state = "changeType"]
       [] f.field = <<"u">> ->
            [g1 EXCEPT !.currentObject = MapSet(@, "kind", "unmerged"),
                       !.isUnmerged = FALSE,
                       !.state = "changeType"]
       [] f.field = <<"!">> ->
            [g1 EXCEPT !.currentObject = MapSet(@, "kind", "ignored"),
                       !.state = "path"]
       [] OTHER -> ThrowError(g1, "Unexpected git status mode", f.field)

ChangeTypeCase(str, g) ==
  LET f == getFieldAndAdvancePos(str, g.pos, Space)
      g1 == [g EXCEPT !.pos = f.pos]
      staged == parseGitStatusChangeType(CharAt(f.field, 0))
      unstaged == parseGitStatusChangeType(CharAt(f.field, 1))
  IN IF staged.threw
       THEN ThrowError(g1, "Unexpected git status change type", staged.value)
       ELSE LET g2 == [g1 EXCEPT !.currentObject =
                                    MapSet(@, "stagedChangeType", staged.value)]
            IN IF unstaged.threw
                 THEN ThrowError(g2, "Unexpected git status change type", unstaged.value)
                 ELSE [g2 EXCEPT !.currentObject =
                                    MapSet(@, "unstagedChangeType", unstaged.value),
                                 !.state = "submoduleState"]

SubmoduleStateCase(str, g) ==
  LET f == getFieldAndAdvancePos(str, g.pos, Space)
      g1 == [g EXCEPT !.pos = f.pos]
      submoduleMode == CharAt(f.field, 0)
      nextState == IF g.isUnmerged THEN "stage1FileMode" ELSE "headFileMode"
  IN CASE submoduleMode = <<"N">> ->
            [g1 EXCEPT !.currentObject = MapSet(@, "isInSubmodule", FALSE),
                       !.state = nextState]
       [] submoduleMode = <<"S">> ->
            [g1 EXCEPT !.currentObject = MapSet(@, "isInSubmodule", TRUE),
                       !.state = nextState]
       [] OTHER -> ThrowError(g1, "Unexpected submodule state", f.field)

RenameOrCopyScoreCase(str, g) ==
  LET f == getFieldAndAdvancePos(str, g.pos, Space)
      g1 == [g EXCEPT !.pos = f.pos]
      renameOrCopyMode == CharAt(f.field, 0)
      score == parseInt(Substring(f.field, 1, Len(f.field)))
      Scored(kind) ==
        [g1 EXCEPT !.currentObject =
                      MapSet(MapSet(@, "kind", kind), "renameOrCopyScore", score),
                   !.state = "path"]
  IN CASE renameOrCopyMode = <<"R">> -> Scored("renamed")
       [] renameOrCopyMode = <<"C">> -> Scored("copied")
       [] OTHER -> ThrowError(g1, "Unexpected rename or copy mode", renameOrCopyMode)

\* case path up to the yield: the generator is suspended with state still
\* path and currentObject the entry it yields
PathCase(str, g) ==
  LET f == getFieldAndAdvancePos(str, g.pos, Nul)
      withPath == MapSet(g.currentObject, "path", f.field)
      f2 == getFieldAndAdvancePos(str, f.pos, Nul)
      entry == IF g.isRenamedOrCopied
                 THEN MapSet(withPath, "originalPath", f2.field)
                 ELSE withPath
  IN [g EXCEPT !.pos = IF g.isRenamedOrCopied THEN f2.pos ELSE f.pos,
               !.currentObject = entry,
               !.yielded = Append(@, entry)]

\* case path after the yield, when the consumer asks for the next entry
AfterYield(str, g) ==
  [g EXCEPT !.isRenamedOrCopied = FALSE,
            !.isUnmerged = FALSE,
            !.currentObject = <<>>,
            !.state = IF g.pos >= Len(str) THEN "undefined" ELSE "mode"]

\* One turn of the loop "while (state !== undefined)"
GitStatusLoopBody(str, g) ==
  CASE g.state = "mode" -> ModeCase(str, g)
    [] g.state = "changeType" -> ChangeTypeCase(str, g)
    [] g.state = "submoduleState" -> SubmoduleStateCase(str, g)
    [] g.state = "headFileMode" -> StoreField(str, g, "headFileMode", "indexFileMode")
    [] g.state = "indexFileMode" -> StoreField(str, g, "indexFileMode", "worktreeFileMode")
    [] g.state = "stage1FileMode" -> StoreField(str, g, "stage1FileMode", "stage2FileMode")
    [] g.state = "stage2FileMode" -> StoreField(str, g, "stage2FileMode", "stage3FileMode")
    [] g.state = "stage3FileMode" -> StoreField(str, g, "stage3FileMode", "worktreeFileMode")
    [] g.state = "worktreeFileMode" ->
         StoreField(str, g, "worktreeFileMode",
                    IF g.isUnmerged THEN "stage1ObjectName" ELSE "headObjectName")
    [] g.state = "headObjectName" -> StoreField(str, g, "headObjectName", "indexObjectName")
    [] g.state = "indexObjectName" ->
         StoreField(str, g, "indexObjectName",
                    IF g.isRenamedOrCopied THEN "renameOrCopyScore" ELSE "path")
    [] g.state = "stage1ObjectName" -> StoreField(str, g, "stage1ObjectName", "stage2ObjectName")
    [] g.state = "stage2ObjectName" -> StoreField(str, g, "stage2ObjectName", "stage3ObjectName")
    [] g.state = "stage3ObjectName" -> StoreField(str, g, "stage3ObjectName", "path")
    [] g.state = "renameOrCopyScore" -> RenameOrCopyScoreCase(str, g)
    [] g.state = "path" -> PathCase(str, g)

\* The methods that iterate the generator
GitConsumers == {"hasUncommittedChanges", "hasUnstagedChanges", "getUncommittedChanges"}

\* Git.hasUncommittedChanges: the test of the loop body on an entry
hasUncommittedChanges(gitStatusEntry) ==
  ~MapHas(gitStatusEntry, "kind") \/ MapGet(gitStatusEntry, "kind") # "ignored"

\* Git.hasUnstagedChanges: the test of the loop body on an entry
hasUnstagedChanges(gitStatusEntry) ==
  \/ MapHas(gitStatusEntry, "kind") /\ MapGet(gitStatusEntry, "kind") = "untracked"
  \/ /\ MapHas(gitStatusEntry, "unstagedChangeType")
     /\ MapGet(gitStatusEntry, "unstagedChangeType") # UndefinedChangeType

\* The loop of the method returns true at this entry.
ReturnsTrueAt(method, gitStatusEntry) ==
  CASE method = "hasUncommittedChanges" -> hasUncommittedChanges(gitStatusEntry)
    [] method = "hasUnstagedChanges" -> hasUnstagedChanges(gitStatusEntry)
    [] method = "getUncommittedChanges" -> FALSE

\* Git.getUncommittedChanges: the paths of the entries that are not ignored
RECURSIVE getUncommittedChanges(_)
getUncommittedChanges(entries) ==
  IF entries = <<>> THEN <<>>
  ELSE IF hasUncommittedChanges(Head(entries))
    THEN <<MapGet(Head(entries), "path")>> \o getUncommittedChanges(Tail(entries))
    ELSE getUncommittedChanges(Tail(entries))

\* What the method returns when the generator has ended
ReturnedAtEnd(method, entries) ==
  IF method = "getUncommittedChanges" THEN getUncommittedChanges(entries) ELSE FALSE

\* ---- Inputs: well-formed records ----
\* A record: its fields, each followed by a space, and its paths, each
\* followed by NUL
StatusRecord(fields, paths) == [fields |-> fields, paths |-> paths]

RECURSIVE JoinTerminated(_, _)
JoinTerminated(strs, terminator) ==
  IF strs = <<>>
    THEN <<>>
    ELSE Head(strs) \o <<terminator>> \o JoinTerminated(Tail(strs), terminator)

RecordText(r) == JoinTerminated(r.fields, Space) \o JoinTerminated(r.paths, Nul)

RECURSIVE StatusOutput(_)
StatusOutput(records) ==
  IF records = <<>> THEN <<>> ELSE RecordText(Head(records)) \o StatusOutput(Tail(records))

ChangedFields(mode, xy, sub) ==
  <<mode, xy, sub, <<"4">>, <<"5">>, <<"6">>, <<"h">>, <<"i">>>>

UnmergedFields(xy) ==
  <<<<"u">>, xy, <<"N">>, <<"1">>, <<"2">>, <<"3">>, <<"6">>, <<"h">>, <<"i">>, <<"j">>>>

StatusRecords ==
  { StatusRecord(<<<<"?">>>>, <<<<"p">>>>),
    StatusRecord(<<<<"?">>>>, <<<<"a", " ", "b">>>>),
    StatusRecord(<<<<"!">>>>, <<<<"q">>>>),
    StatusRecord(ChangedFields(<<"1">>, <<".", "M">>, <<"N">>), <<<<"p">>>>),
    StatusRecord(ChangedFields(<<"1">>, <<"A", ".">>, <<"S">>), <<<<"q">>>>),
    StatusRecord(ChangedFields(<<"2">>, <<"R", ".">>, <<"N">>) \o <<<<"R", "7", "5">>>>,
                 <<<<"p">>, <<"q">>>>),
    StatusRecord(ChangedFields(<<"2">>, <<"C", "M">>, <<"N">>) \o <<<<"C", "9">>>>,
                 <<<<"a", " ", "b">>, <<"p">>>>),
    StatusRecord(UnmergedFields(<<"A", "A">>), <<<<"p">>>>),
    StatusRecord(UnmergedFields(<<"U", "U">>), <<<<"a", " ", "b">>>>) }

GitStatusInit ==
  /\ statusRecords \in SeqsUpTo(StatusRecords, MaxRecords)
  /\ output = StatusOutput(statusRecords)
  /\ gitConsumer \in GitConsumers
  /\ gitResult = <<>>
  /\ gitPc = "parsing"
  /\ pos = NewParser.pos
  /\ state = NewParser.state
  /\ isRenamedOrCopied = NewParser.isRenamedOrCopied
  /\ isUnmerged = NewParser.isUnmerged
  /\ currentObject = NewParser.currentObject
  /\ yielded = NewParser.yielded
  /\ gitError = NewParser.error
  /\ visitedStates = <<>>
  /\ SchedIdle
  /\ AsyncIdle
  /\ CfgIdle
  /\ CvIdle

SetParser(g) ==
  /\ pos' = g.pos
  /\ state' = g.state
  /\ isRenamedOrCopied' = g.isRenamedOrCopied
  /\ isUnmerged' = g.isUnmerged
  /\ currentObject' = g.currentObject
  /\ yielded' = g.yielded
  /\ gitError' = g.error

\* One turn of the loop, in state path up to the yield.  An error thrown by
\* the generator leaves the method that iterates it.
GetGitStatusStep ==
  /\ gitPc = "parsing"
  /\ SetParser(GitStatusLoopBody(output, Parser))
  /\ gitPc' = IF gitError' # NoError THEN "error"
              ELSE IF state = "path" THEN "yielded"
              ELSE "parsing"
  /\ visitedStates' =
       IF state = "mode"
         THEN Append(visitedStates, <<state>>)
         ELSE [visitedStates EXCEPT ![Len(visitedStates)] = Append(@, state)]
  /\ UNCHANGED <<output, statusRecords, gitConsumer, gitResult>>
  /\ UNCHANGED <<schedVars, asyncVars, cfgVars, cvVars>>

\* The body of the for-of loop of the method returns true at the entry it
\* was given: the generator is never resumed.
ConsumerReturns ==
  /\ gitPc = "yielded"
  /\ ReturnsTrueAt(gitConsumer, currentObject)
  /\ gitPc' = "returned"
  /\ gitResult' = <<TRUE>>
  /\ UNCHANGED <<output, pos, state, isRenamedOrCopied, isUnmerged, currentObject,
                 yielded, gitError, visitedStates, statusRecords, gitConsumer>>
  /\ UNCHANGED <<schedVars, asyncVars, cfgVars, cvVars>>

\* The method asks for the next entry: the generator goes on after its yield
\* to the test of the loop; when the loop ends so does the generator, and
\* the method returns.
ConsumerResumes ==
  /\ gitPc = "yielded"
  /\ ~ReturnsTrueAt(gitConsumer, currentObject)
  /\ SetParser(AfterYield(output, Parser))
  /\ gitPc' = IF state' = "undefined" THEN "done" ELSE "parsing"
  /\ gitResult' = IF state' = "undefined"
                    THEN <<ReturnedAtEnd(gitConsumer, yielded)>>
                    ELSE gitResult
  /\ UNCHANGED <<output, visitedStates, statusRecords, gitConsumer>>
  /\ UNCHANGED <<schedVars, asyncVars, cfgVars, cvVars>>

NextGitStatus ==
  \/ GetGitStatusStep
  \/ ConsumerReturns
  \/ ConsumerResumes

SpecGitStatus == GitStatusInit /\ [][NextGitStatus]_vars

(***************************************************************************)
(* Properties of the operation scheduler                                   *)
(***************************************************************************)
HasFailedDependency(o) ==
  \E x \in TransitiveDependencies(deps, o) : status[x] = "Failure"

AllDependenciesNonBlocking(o) ==
  deps[o] # {} /\ \A x \in deps[o] : status[x] \in NonBlockingTerminal

\* The scheduler never has more operations Executing than its concurrency limit.
ExecutingWithinParallelism == Cardinality(Executing) <= parallelism

\* C1: block-on-failure.  An operation with a direct or transitive dependency
\* in Failure is Blocked, and its runner was never invoked (so it was never
\* Executing), in every state from the failure on and hence at the end of the run.
C1_BlockOnFailure ==
  \A o \in Ops : HasFailedDependency(o) => status[o] = "Blocked" /\ o \notin invoked

\* The run has returned with a chain c -> b -> a where a failed and b, c are Blocked.
C1_Witness ==
  /\ verdict = "failure"
  /\ \E a, b, c \in Ops :
       /\ a \in deps[b] /\ b \in deps[c] /\ a \notin deps[c]
       /\ status[a] = "Failure" /\ status[b] = "Blocked" /\ status[c] = "Blocked"
       /\ b \notin invoked /\ c \notin invoked

\* C3: dependency ordering.  A step that takes an operation into Executing
\* starts from a state where each of its dependencies is terminal and
\* non-blocking (none is Ready or Executing).
C3_DependencyOrdering ==
  [][\A o \in Ops :
       status[o] # "Executing" /\ status'[o] = "Executing"
         => \A x \in deps[o] : status[x] \in NonBlockingTerminal]_vars

\* An operation with two dependencies is Executing.
C3_Witness ==
  \E o \in Ops : status[o] = "Executing" /\ Cardinality(deps[o]) >= 2

\* C4: terminal statuses are absorbing.  No step changes the status of an
\* operation whose status is terminal.
C4_TerminalAbsorbing ==
  [][\A o \in Ops : status[o] \in TerminalStatuses => status'[o] = status[o]]_vars

\* A run that went on after a failure: a dependency succeeded, its consumer
\* failed, the consumer's consumer is Blocked, and the run has returned.
C4_Witness ==
  /\ verdict # "none"
  /\ \E a, b, c \in Ops :
       /\ a \in deps[b] /\ b \in deps[c]
       /\ status[a] \in NonBlockingTerminal /\ status[b] = "Failure" /\ status[c] = "Blocked"

\* C5 as stated: an operation all of whose dependencies ended in non-blocking
\* terminal statuses is never Blocked and is eventually executed (terminal
\* statuses and runner invocations are permanent, so "eventually executed"
\* is "from some point on, executed").
C5_Original ==
  /\ [](\A o \in Ops : AllDependenciesNonBlocking(o) => status[o] # "Blocked")
  /\ <>[](\A o \in Ops : AllDependenciesNonBlocking(o) => o \in invoked)

\* C5 amended: an operation all of whose dependencies ended in non-blocking
\* terminal statuses is never Blocked, and is eventually executed unless the
\* run is cancelled before it is dispatched.
C5_NonBlockingUnblocks ==
  /\ [](\A o \in Ops : AllDependenciesNonBlocking(o) => status[o] # "Blocked")
  /\ <>[](\A o \in Ops : AllDependenciesNonBlocking(o) => (o \in invoked \/ cancelled))

\* An operation was executed whose dependencies ended Skipped, FromCache or
\* NoOp, none of them Success.
C5_Witness ==
  \E o \in Ops :
    /\ o \in invoked
    /\ Cardinality(deps[o]) >= 2
    /\ \A x \in deps[o] : status[x] \in {"Skipped", "FromCache", "NoOp"}
    /\ \E x, y \in deps[o] : status[x] # status[y]

\* C6: overall verdict.  When the run has returned without cancellation, the
\* verdict is failure exactly when some operation's final status is Failure.
C6_OverallVerdict ==
  verdict \in {"success", "failure"}
    => (verdict = "failure" <=> \E o \in Ops : status[o] = "Failure")

\* A run returned failure after a failed operation was followed by a
\* successful one, with a Blocked operation reported.
C6_Witness ==
  /\ verdict = "failure"
  /\ \E a, b, c \in Ops :
       status[a] = "Failure" /\ status[b] = "Blocked" /\ status[c] = "Success"

\* C7: scheduler liveness.  Without cancellation and with every started runner
\* returning, the run eventually returns with every operation terminal.
C7_SchedulerLiveness ==
  <>(verdict # "none" /\ \A o \in Ops : status[o] \in TerminalStatuses)

\* A run over a three-operation chain has returned with every operation executed.
C7_Witness ==
  /\ verdict = "success"
  /\ invoked = Ops
  /\ \E a, b, c \in Ops : a \in deps[b] /\ b \in deps[c]

\* C8: cancellation.  Once the flag is set it stays set, no operation enters
\* Executing, operations recorded as Success keep that status, and the
\* executor has returned only when no worker is in flight.
C8_Cancellation ==
  /\ [][cancelled =>
          /\ cancelled'
          /\ \A o \in Ops :
               /\ status[o] # "Executing" => status'[o] # "Executing"
               /\ status[o] = "Success" => status'[o] = "Success"]_vars
  /\ [](verdict # "none" => Executing = {})

\* A cancelled run that has returned, leaving undispatched an operation that
\* was ready while a worker was free, with a Success on record.
C8_Witness ==
  /\ verdict = "cancelled"
  /\ readySet # {}
  /\ parallelism > 1
  /\ \E o \in Ops : status[o] = "Success"
  /\ \E o \in Ops : status[o] = "Failure"

\* C9: a Failure does not abort siblings.  In the step that records a Failure
\* of f, every other Executing operation stays Executing, and every operation
\* that does not transitively depend on f keeps its status and its place in
\* the ready-set; an operation is Blocked only below a failed dependency.
C9_FailureKeepsSiblings ==
  /\ [][\A f \in Ops :
          status[f] = "Executing" /\ status'[f] = "Failure"
            => \A o \in Ops \ {f} :
                 /\ status[o] = "Executing" => status'[o] = "Executing"
                 /\ o \notin TransitiveConsumers(deps, f)
                      => status'[o] = status[o] /\ (o \in readySet => o \in readySet')]_vars
  /\ [](\A o \in Ops : status[o] = "Blocked" => HasFailedDependency(o))

\* After f failed, a sibling that was running at that moment has reached
\* Success and an unrelated operation has been dispatched since.
C9_Witness ==
  \E f, o, p \in Ops :
    /\ status[f] = "Failure"
    /\ o \in siblings /\ status[o] = "Success"
    /\ p \notin siblings /\ p # f /\ status[p] = "Executing"
    /\ parallelism = 2

(***************************************************************************)
(* Properties of Async.forEachAsync                                        *)
(***************************************************************************)
CallbacksInProgress == {i \in Items : cb[i] = "running"}

\* C2: bounded concurrency.  With options.concurrency = N >= 1, the counter
\* operationsInProgress stays within 0..N and at most N callbacks are in
\* progress, counting the awaited iterator.next() calls with them.
C2_BoundedConcurrency ==
  Concurrency(optConcurrency) # Infinity =>
    /\ operationsInProgress \in 0..Concurrency(optConcurrency)
    /\ Cardinality(CallbacksInProgress) + Len(pendingNext) <= operationsInProgress

\* With the limit 2 reached by two running callbacks, a third item is left
\* in the iterator.
C2_Witness ==
  /\ optConcurrency = <<2>>
  /\ Cardinality(CallbacksInProgress) = 2
  /\ operationsInProgress = 2
  /\ iterPos < iterableLen

(***************************************************************************)
(* Properties of the configuration and of the operation graph              *)
(***************************************************************************)
SelfOf(phase) == SeqRange(config.phaseObjects[phase].dependencies.self)

UpstreamOf(phase) == SeqRange(config.phaseObjects[phase].dependencies.upstream)

\* C10: the operation graph is acyclic.  For an acyclic project graph and a
\* phase configuration accepted by the constructor (upstream dependencies
\* unchecked, possibly cyclic or self-referencing), the graph built with the
\* self-edge and upstream-edge rules has no cycle.
C10_OperationGraphAcyclic ==
  cfgPc = "graph" => IsAcyclic(operations, operationDependencies)

\* A graph was built for an accepted configuration in which phase x depends
\* on y within the project and y depends on x upstream, so that the phases
\* form a cycle through an upstream edge, and the graph has edges of both kinds.
C10_Witness ==
  /\ cfgPc = "graph"
  /\ \E x, y \in DOMAIN config.phaseObjects :
       x # y /\ y \in SelfOf(x) /\ x \in UpstreamOf(y)
  /\ \E op \in operations : \E d \in operationDependencies[op] : d.project = op.project
  /\ \E op \in operations : \E d \in operationDependencies[op] : d.project # op.project

\* C11: the edge rule.  In a built graph Operation(phase, project) depends on
\* an operation exactly when it is Operation(s, project) for a self dependency
\* s of phase, or Operation(u, p2) for an upstream dependency u of phase and a
\* direct upstream project p2 of project; every dependency is an operation of
\* the graph, and b is a dependency of a exactly when a is a consumer of b.
C11_EdgeRule ==
  cfgPc = "graph" =>
    \A a \in operations :
      /\ a.phase # Undefined =>
           \A phase \in DOMAIN config.phaseObjects : \A project \in Projects :
             Operation(phase, project) \in operationDependencies[a]
               <=> \/ project = a.project /\ phase \in SelfOf(a.phase)
                   \/ project \in projectDependencies[a.project] /\ phase \in UpstreamOf(a.phase)
      /\ a.phase = Undefined => operationDependencies[a] = {}
      /\ \A b \in operationDependencies[a] : b \in operations /\ a \in operationConsumers[b]
      /\ \A b \in operationConsumers[a] : b \in operations /\ a \in operationDependencies[b]

\* A graph was built in which an operation has a self edge and an upstream
\* edge to an operation of a different phase, and some operation has two
\* consumers.
C11_Witness ==
  /\ cfgPc = "graph"
  /\ \E a \in operations :
       /\ \E b \in operationDependencies[a] : b.project = a.project
       /\ \E b \in operationDependencies[a] : b.project # a.project /\ b.phase # a.phase
  /\ \E b \in operations : Cardinality(operationConsumers[b]) >= 2

\* The declared phases of the input, by position, and the positions phase i
\* lists as self dependencies in command-line.json.
DeclaredPhases == DOMAIN commandLineJson.phases

DeclaredSelf ==
  [i \in DeclaredPhases |->
     {j \in DeclaredPhases :
        commandLineJson.phases[j].name \in SeqRange(commandLineJson.phases[i].dependencies.self)}]

DeclaredUpstream ==
  [i \in DeclaredPhases |->
     {j \in DeclaredPhases :
        commandLineJson.phases[j].name \in SeqRange(commandLineJson.phases[i].dependencies.upstream)}]

DeclaredBoth == [i \in DeclaredPhases |-> DeclaredSelf[i] \cup DeclaredUpstream[i]]

IsCycleError == config.error # NoError /\ config.error.kind = "cycle"

\* C12: the constructor fails with the cycle error exactly when the declared
\* self dependencies contain a cycle (a self-loop included); a cycle that
\* passes through an upstream dependency is accepted.  The walk ends for every
\* input: the constructor either returns or throws.
C12_SelfCycleCheck ==
  cfgPc # "start" =>
    /\ IsCycleError <=> ~IsAcyclic(DeclaredPhases, DeclaredSelf)
    /\ cfgPc = "error" <=> IsCycleError
    /\ cfgPc = "constructed" <=> ~IsCycleError

\* The constructor rejected a configuration whose self dependencies hold a
\* cycle over at least two phases and no self-loop.
C12_Witness ==
  /\ cfgPc = "error"
  /\ IsCycleError
  /\ \A i \in DeclaredPhases : i \notin DeclaredSelf[i]
  /\ Len(commandLineJson.phases) = MaxCyclePhases

\* The other direction: the constructor accepted a configuration with self
\* dependencies whose upstream dependencies close a cycle.
C12_WitnessAccepted ==
  /\ cfgPc = "constructed"
  /\ Len(commandLineJson.phases) = MaxCyclePhases
  /\ \E i \in DeclaredPhases : DeclaredSelf[i] # {}
  /\ ~IsAcyclic(DeclaredPhases, DeclaredBoth)

\* The names listed by the cycle error, as positions of declared phases.
ListedPhases ==
  [n \in DOMAIN config.error.path |->
     CHOOSE i \in DeclaredPhases : commandLineJson.phases[i].name = config.error.path[n]]

\* C13: the phases listed by the cycle error are exactly the phases of one
\* cycle in traversal order: each listed phase lists the next one as self
\* dependency and the last one lists the first.
C13_CycleErrorListsOneCycle ==
  IsCycleError =>
    LET listed == ListedPhases IN
      /\ Len(listed) >= 1
      /\ \A n \in 1..(Len(listed) - 1) : listed[n + 1] \in DeclaredSelf[listed[n]]
      /\ listed[1] \in DeclaredSelf[listed[Len(listed)]]

\* The commands of the instance, and the phases of a phased command.
Commands == SeqRange(MapValues(config.commands))

PhasesOf(command) == SeqRange(config.phaseSetObjects[command.phases])

\* The phases a declaration of command-line.json names in its "phases" property.
NamedPhases(commandJson) ==
  {MapGet(config.phases, commandJson.phases[n]) : n \in DOMAIN commandJson.phases}

\* C14: phase set closure.  In an accepted configuration the phases of every
\* phased command contain every phase its declaration names, and with a
\* phase they contain its self and upstream dependencies, whatever the
\* dependency graph (cyclic upstream references included).
C14_PhaseSetClosure ==
  cfgPc \in {"constructed", "graph"} =>
    /\ \A n \in DOMAIN commandLineJson.commands :
         LET commandJson == commandLineJson.commands[n] IN
           commandJson.commandKind = PhasedCommandKind =>
             /\ MapHas(config.commands, commandJson.name)
             /\ Undefined \notin NamedPhases(commandJson)
             /\ NamedPhases(commandJson) \subseteq PhasesOf(MapGet(config.commands, commandJson.name))
    /\ \A command \in Commands :
         command.commandKind = PhasedCommandKind =>
           \A phase \in PhasesOf(command) :
             SelfOf(phase) \cup UpstreamOf(phase) \subseteq PhasesOf(command)

\* An accepted phased command that names one phase and got a second one by
\* expansion, over phases whose upstream dependencies refer to each other.
C14_Witness ==
  /\ cfgPc = "constructed"
  /\ \E n \in DOMAIN commandLineJson.commands :
       LET commandJson == commandLineJson.commands[n] IN
         /\ commandJson.commandKind = PhasedCommandKind
         /\ Len(commandJson.phases) = 1
         /\ Cardinality(PhasesOf(MapGet(config.commands, commandJson.name))) = 2
  /\ \E x, y \in DOMAIN config.phaseObjects :
       x # y /\ y \in UpstreamOf(x) /\ x \in UpstreamOf(y)

\* The declarations of command-line.json, and whether one has the given name.
DeclaredCommands == SeqRange(commandLineJson.commands)

Declares(name) == \E commandJson \in DeclaredCommands : commandJson.name = name

DefaultsEnabled == ~options.doNotIncludeDefaultBuildCommands

\* The bulk commands the constructor translates: the declared ones, and the
\* default build command when it is added.
BulkCommands ==
  {commandJson \in DeclaredCommands : commandJson.commandKind = BulkCommandKind}
    \cup (IF DefaultsEnabled /\ ~Declares(BuildCommandName)
           THEN {DEFAULT_BUILD_COMMAND_JSON} ELSE {})

\* C15: bulk translation.  In an accepted configuration every bulk command
\* (declared, or the default build) is a phased command whose phases hold
\* exactly one phase, a synthetic phase named after the command; its upstream
\* dependencies are exactly itself unless ignoreDependencyOrder is set, in
\* which case there are none, and it has no self dependencies.
C15_BulkTranslation ==
  cfgPc = "constructed" =>
    \A bulk \in BulkCommands :
      /\ MapHas(config.commands, bulk.name)
      /\ LET command == MapGet(config.commands, bulk.name) IN
           /\ command.commandKind = PhasedCommandKind
           /\ Len(config.phaseSetObjects[command.phases]) = 1
           /\ \A phase \in PhasesOf(command) :
                /\ config.phaseObjects[phase].name = bulk.name
                /\ config.phaseObjects[phase].isSynthetic
                /\ MapGet(config.phases, bulk.name) = phase
                /\ UpstreamOf(phase) = IF bulk.ignoreDependencyOrder THEN {} ELSE {phase}
                /\ SelfOf(phase) = {}

\* An accepted configuration with a declared bulk command that sets
\* ignoreDependencyOrder, a declared bulk command that does not, and the
\* default build command.
C15_Witness ==
  /\ cfgPc = "constructed"
  /\ DEFAULT_BUILD_COMMAND_JSON \in BulkCommands
  /\ \E bulk \in BulkCommands \cap DeclaredCommands : bulk.ignoreDependencyOrder
  /\ \E bulk \in BulkCommands \cap DeclaredCommands : ~bulk.ignoreDependencyOrder

\* Declaration n of command-line.json names "build" or "rebuild" ...
DeclaresBuildOrRebuild(n) ==
  commandLineJson.commands[n].name \in {BuildCommandName, RebuildCommandName}

\* ... with command kind global,
DeclaresGlobalBuild(n) ==
  /\ DeclaresBuildOrRebuild(n)
  /\ commandLineJson.commands[n].commandKind = GlobalCommandKind

\* ... or with kind bulk or phased and safeForSimultaneousRushProcesses=true.
DeclaresSimultaneousBuild(n) ==
  /\ DeclaresBuildOrRebuild(n)
  /\ commandLineJson.commands[n].commandKind \in {BulkCommandKind, PhasedCommandKind}
  /\ commandLineJson.commands[n].safeForSimultaneousRushProcesses

\* No declaration before the n-th is rejected for "build"/"rebuild" itself.
FirstRejectedDeclaration(n) ==
  \A m \in 1..(n - 1) : ~DeclaresGlobalBuild(m) /\ ~DeclaresSimultaneousBuild(m)

\* C16: a configuration that declares "build" or "rebuild" with command kind
\* global is never accepted, whatever commands and parameters follow; the
\* error names the command, the kind "global" and the allowed kinds "bulk"
\* and "phased".
C16_GlobalBuildRejected ==
  cfgPc # "start" =>
    \A n \in DOMAIN commandLineJson.commands :
      DeclaresGlobalBuild(n) =>
        /\ cfgPc = "error"
        /\ FirstRejectedDeclaration(n) =>
             config.error = [kind |-> "build command cannot be global",
                             name |-> commandLineJson.commands[n].name,
                             commandKind |-> GlobalCommandKind,
                             allowedKinds |-> {BulkCommandKind, PhasedCommandKind}]

\* "rebuild" declared global was rejected, after an accepted declaration and
\* before a parameter that by itself would have been accepted.
C16_Witness ==
  /\ cfgPc = "error"
  /\ Len(commandLineJson.commands) = 2
  /\ DeclaresGlobalBuild(2)
  /\ commandLineJson.commands[2].name = RebuildCommandName
  /\ config.error.kind = "build command cannot be global"
  /\ commandLineJson.parameters # <<>>

\* C17: a configuration that declares a bulk or phased command named "build"
\* or "rebuild" with safeForSimultaneousRushProcesses=true is never accepted,
\* the error names the command; so the build and rebuild commands of an
\* accepted configuration do not have the flag.
C17_SimultaneousBuildRejected ==
  /\ cfgPc # "start" =>
       \A n \in DOMAIN commandLineJson.commands :
         DeclaresSimultaneousBuild(n) =>
           /\ cfgPc = "error"
           /\ FirstRejectedDeclaration(n) =>
                config.error = [kind |-> "safeForSimultaneousRushProcesses=true is not supported",
                                name |-> commandLineJson.commands[n].name]
  /\ cfgPc = "constructed" =>
       \A command \in Commands :
         command.name \in {BuildCommandName, RebuildCommandName}
           => ~command.safeForSimultaneousRushProcesses

\* A phased "rebuild" with the flag was rejected after an accepted bulk "build".
C17_Witness ==
  /\ cfgPc = "error"
  /\ Len(commandLineJson.commands) = 2
  /\ commandLineJson.commands[1].name = BuildCommandName
  /\ commandLineJson.commands[1].commandKind = BulkCommandKind
  /\ DeclaresSimultaneousBuild(2)
  /\ commandLineJson.commands[2].commandKind = PhasedCommandKind
  /\ config.error.kind = "safeForSimultaneousRushProcesses=true is not supported"

BuildCommand == MapGet(config.commands, BuildCommandName)

RebuildCommand == MapGet(config.commands, RebuildCommandName)

ParametersOf(command) == SeqRange(config.parameterSetObjects[command.associatedParameters])

\* C18: the default rebuild shares build's state.  When defaults are enabled
\* and no "rebuild" is declared, the rebuild command's phases and
\* associatedParameters are the same Set objects as the build command's, so
\* after parameter binding both commands have the same parameters; a declared
\* rebuild has Set objects of its own.
C18_DefaultRebuildSharesBuild ==
  cfgPc = "constructed" =>
    /\ DefaultsEnabled /\ ~Declares(RebuildCommandName) =>
         /\ MapHas(config.commands, BuildCommandName)
         /\ MapHas(config.commands, RebuildCommandName)
         /\ RebuildCommand.phases = BuildCommand.phases
         /\ RebuildCommand.associatedParameters = BuildCommand.associatedParameters
         /\ \A parameter \in DOMAIN config.parameters :
              parameter \in ParametersOf(BuildCommand) <=> parameter \in ParametersOf(RebuildCommand)
    /\ Declares(RebuildCommandName) /\ MapHas(config.commands, BuildCommandName) =>
         /\ RebuildCommand.phases # BuildCommand.phases
         /\ RebuildCommand.associatedParameters # BuildCommand.associatedParameters

\* An accepted configuration with a declared phased "build", the default
\* rebuild, and a parameter associated with "rebuild" only that is therefore
\* a parameter of "build" as well.
C18_Witness ==
  /\ cfgPc = "constructed"
  /\ DefaultsEnabled /\ ~Declares(RebuildCommandName)
  /\ \E commandJson \in DeclaredCommands :
       commandJson.name = BuildCommandName /\ commandJson.commandKind = PhasedCommandKind
  /\ Len(commandLineJson.parameters) = 1
  /\ commandLineJson.parameters[1].associatedCommands = <<RebuildCommandName>>
  /\ 1 \in ParametersOf(BuildCommand)

\* The other case: a declared rebuild next to a build command, with a
\* parameter bound to one of them only.
C18_WitnessDeclared ==
  /\ cfgPc = "constructed"
  /\ Declares(RebuildCommandName)
  /\ MapHas(config.commands, BuildCommandName)
  /\ ParametersOf(BuildCommand) # ParametersOf(RebuildCommand)

\* C19: default commands.  With defaults enabled an accepted configuration
\* has both "build" and "rebuild", both of phased kind, an undeclared build
\* being incremental and an undeclared rebuild not; with
\* doNotIncludeDefaultBuildCommands (tryLoadFromFile) the configuration has
\* exactly the commands the file declares.
C19_DefaultCommands ==
  cfgPc = "constructed" =>
    /\ DefaultsEnabled =>
         /\ MapHas(config.commands, BuildCommandName)
         /\ MapHas(config.commands, RebuildCommandName)
         /\ BuildCommand.commandKind = PhasedCommandKind
         /\ RebuildCommand.commandKind = PhasedCommandKind
         /\ ~Declares(BuildCommandName) => BuildCommand.incremental /\ BuildCommand.isSynthetic
         /\ ~Declares(RebuildCommandName) => ~RebuildCommand.incremental /\ RebuildCommand.isSynthetic
         /\ {command.name : command \in Commands}
              = {commandJson.name : commandJson \in DeclaredCommands}
                  \cup {BuildCommandName, RebuildCommandName}
    /\ ~DefaultsEnabled =>
         {command.name : command \in Commands} = {commandJson.name : commandJson \in DeclaredCommands}

\* tryLoadFromFile accepted a file that declares "build" and not "rebuild".
C19_Witness ==
  /\ cfgPc = "constructed"
  /\ options = tryLoadFromFileOptions
  /\ Declares(BuildCommandName)
  /\ ~MapHas(config.commands, RebuildCommandName)

\* The other case: both default commands were added next to a declared command.
C19_WitnessDefaults ==
  /\ cfgPc = "constructed"
  /\ options = loadFromFileOrDefaultOptions
  /\ ~Declares(BuildCommandName) /\ ~Declares(RebuildCommandName)
  /\ DeclaredCommands # {}

\* The phases and commands stages succeeded: the instance is accepted or
\* the error comes from the parameters stage.
ParameterErrorKinds ==
  {"default value is not one of the alternatives",
   "associated command does not exist",
   "associated phase does not exist",
   "lists no associated commands",
   "only associated with phased commands, but lists no associated phases"}

ParametersStageReached ==
  \/ cfgPc = "constructed"
  \/ cfgPc = "error" /\ config.error.kind \in ParameterErrorKinds

\* The commands parameter n of command-line.json is associated with.
AssociatedNames(n) == SeqRange(commandLineJson.parameters[n].associatedCommands)

\* Parameter n ends up with no associated phase: it declares none and none
\* of its commands is a translated bulk command.
EndsWithoutPhase(n) ==
  /\ commandLineJson.parameters[n].associatedPhases = <<>>
  /\ \A bulk \in BulkCommands : bulk.name \notin AssociatedNames(n)

\* C20: parameter validation.  A parameter with no associated command is
\* rejected; a parameter whose associated commands are all of phased kind
\* and that ends up with no associated phase is rejected; a parameter with at
\* least one associated global command needs no associated phase.
C20_ParameterValidation ==
  ParametersStageReached =>
    \A n \in DOMAIN commandLineJson.parameters :
      LET parameter == commandLineJson.parameters[n]
          allExist == \A name \in AssociatedNames(n) : MapHas(config.commands, name)
          kinds == {MapGet(config.commands, name).commandKind :
                      name \in {x \in AssociatedNames(n) : MapHas(config.commands, x)}}
      IN
        /\ parameter.associatedCommands = <<>> => cfgPc = "error"
        /\ parameter.associatedCommands = <<>> /\ parameter.associatedPhases = <<>>
             => config.error.kind = "lists no associated commands"
        /\ parameter.associatedCommands # <<>> /\ allExist
               /\ kinds = {PhasedCommandKind} /\ EndsWithoutPhase(n)
             => /\ cfgPc = "error"
                /\ config.error.kind =
                     "only associated with phased commands, but lists no associated phases"
        /\ allExist /\ GlobalCommandKind \in kinds /\ parameter.associatedPhases = <<>>
               /\ parameter.parameterKind = "flag"
             => cfgPc = "constructed"

\* A parameter associated with a global and a phased command and with no
\* phase was accepted.
C20_Witness ==
  /\ cfgPc = "constructed"
  /\ Len(commandLineJson.parameters) = 1
  /\ EndsWithoutPhase(1)
  /\ {MapGet(config.commands, name).commandKind : name \in AssociatedNames(1)}
       = {GlobalCommandKind, PhasedCommandKind}

\* The rejections: a parameter without commands, and a parameter of the
\* default rebuild command alone without phases.
C20_WitnessNoCommands ==
  /\ cfgPc = "error"
  /\ config.error.kind = "lists no associated commands"

C20_WitnessNoPhases ==
  /\ cfgPc = "error"
  /\ config.error.kind = "only associated with phased commands, but lists no associated phases"
  /\ AssociatedNames(1) = {RebuildCommandName}
  /\ ~Declares(RebuildCommandName)

BulkCommandNames == {bulk.name : bulk \in BulkCommands}

\* C21: bulk parameter re-association.  In an accepted configuration, for
\* every parameter and every associated command translated from a bulk
\* command (the default build included), the parameter's associatedPhases
\* hold the name of the command's synthetic phase, and the name resolves in
\* the phase registry to a synthetic phase; so a parameter associated with
\* declared bulk commands only is accepted without declaring a phase.
C21_BulkParameterReassociation ==
  /\ cfgPc = "constructed" =>
       \A n \in DOMAIN commandLineJson.parameters :
         \A name \in AssociatedNames(n) \cap BulkCommandNames :
           /\ name \in SeqRange(config.parameters[n].associatedPhases)
           /\ MapGet(config.phases, name) # Undefined
           /\ config.phaseObjects[MapGet(config.phases, name)].isSynthetic
           /\ MapGet(config.phases, name) \in PhasesOf(MapGet(config.commands, name))
  /\ ParametersStageReached =>
       \A n \in DOMAIN commandLineJson.parameters :
         LET parameter == commandLineJson.parameters[n] IN
           /\ parameter.parameterKind = "flag"
           /\ parameter.associatedPhases = <<>>
           /\ AssociatedNames(n) # {}
           /\ \A name \in AssociatedNames(n) :
                \E bulk \in BulkCommands \cap DeclaredCommands : bulk.name = name
           => cfgPc = "constructed"

\* A parameter that declares no phase and is associated with two declared
\* bulk commands was accepted and has their two synthetic phases.
C21_Witness ==
  /\ cfgPc = "constructed"
  /\ Len(commandLineJson.parameters) = 1
  /\ commandLineJson.parameters[1].associatedPhases = <<>>
  /\ Cardinality(AssociatedNames(1)) = 2
  /\ AssociatedNames(1) \subseteq {bulk.name : bulk \in BulkCommands \cap DeclaredCommands}
  /\ Len(config.parameters[1].associatedPhases) = 2

(***************************************************************************)
(* Properties of the references, names and watch phases                    *)
(***************************************************************************)
DeclaredPhaseNames == {commandLineJson.phases[i].name : i \in DOMAIN commandLineJson.phases}

\* Some declared phase lists, as self or upstream dependency, a name that no
\* phase declares.
DanglingDependency ==
  \E i \in DOMAIN commandLineJson.phases :
    \E name \in SeqRange(commandLineJson.phases[i].dependencies.self)
                  \cup SeqRange(commandLineJson.phases[i].dependencies.upstream) :
      name \notin DeclaredPhaseNames

\* The phase names declaration n lists under "phases" and "watchPhases".
NamedByCommand(n) ==
  LET commandJson == commandLineJson.commands[n] IN
    SeqRange(commandJson.phases)
      \cup (IF commandJson.watchOptions = <<>> THEN {}
            ELSE SeqRange(commandJson.watchOptions[1].watchPhases))

\* Declaration n is a phased command that names a phase no phase declares.
NamesUndeclaredPhase(n) ==
  /\ commandLineJson.commands[n].commandKind = PhasedCommandKind
  /\ \E name \in NamedByCommand(n) : name \notin DeclaredPhaseNames

\* The commands and phases that exist when the parameters are processed.
ExistingCommandNames ==
  {commandJson.name : commandJson \in DeclaredCommands}
    \cup (IF DefaultsEnabled THEN {BuildCommandName, RebuildCommandName} ELSE {})

ExistingPhaseNames == DeclaredPhaseNames \cup BulkCommandNames

NamesNonexistentEntity(n) ==
  \/ \E name \in AssociatedNames(n) : name \notin ExistingCommandNames
  \/ \E name \in SeqRange(commandLineJson.parameters[n].associatedPhases) :
       name \notin ExistingPhaseNames

RegisteredPhaseNames == {config.phases[i].key : i \in DOMAIN config.phases}

RegisteredCommandNames == {config.commands[i].key : i \in DOMAIN config.commands}

\* The phase objects the registry holds: the values of this.phases.
RegisteredPhases == {config.phases[i].value : i \in DOMAIN config.phases}

\* In the instance every name a declaration refers to is registered, and
\* every dependency of a registered phase, every phase of a phased command
\* and every association of a parameter is an entity the registry holds.
ReferencesResolved ==
  /\ \A i \in DOMAIN commandLineJson.phases :
       LET rawPhase == commandLineJson.phases[i]
       IN /\ rawPhase.name \in RegisteredPhaseNames
          /\ SeqRange(rawPhase.dependencies.self) \subseteq RegisteredPhaseNames
          /\ SeqRange(rawPhase.dependencies.upstream) \subseteq RegisteredPhaseNames
  /\ \A phase \in RegisteredPhases :
       /\ SeqRange(config.phaseObjects[phase].dependencies.self) \subseteq RegisteredPhases
       /\ SeqRange(config.phaseObjects[phase].dependencies.upstream) \subseteq RegisteredPhases
  /\ \A n \in DOMAIN commandLineJson.commands :
       /\ commandLineJson.commands[n].name \in RegisteredCommandNames
       /\ commandLineJson.commands[n].commandKind = PhasedCommandKind =>
            NamedByCommand(n) \subseteq RegisteredPhaseNames
  /\ \A command \in Commands :
       command.commandKind = PhasedCommandKind =>
         /\ PhasesOf(command) \subseteq RegisteredPhases
         /\ SeqRange(config.phaseSetObjects[command.watchPhases]) \subseteq RegisteredPhases
  /\ \A n \in DOMAIN config.parameters :
       /\ SeqRange(config.parameters[n].associatedCommands) \subseteq RegisteredCommandNames
       /\ SeqRange(config.parameters[n].associatedPhases) \subseteq RegisteredPhaseNames
       /\ \A name \in SeqRange(config.parameters[n].associatedCommands) :
            SetHas(config.parameterSetObjects[MapGet(config.commands, name).associatedParameters], n)

\* C22: dangling references are fatal.  A phase whose self or upstream
\* dependency names a phase that is not declared, a phased command whose
\* phases or watchPhases name an undeclared phase, and a parameter that names
\* a command or phase that does not exist make the construction fail; in
\* every accepted configuration every dependency, command phase and parameter
\* association refers to a registered entity.
C22_DanglingReferences ==
  /\ cfgPc # "start" =>
       /\ DanglingDependency => cfgPc = "error"
       /\ \A n \in DOMAIN commandLineJson.commands : NamesUndeclaredPhase(n) => cfgPc = "error"
       /\ \A n \in DOMAIN commandLineJson.parameters :
            NamesNonexistentEntity(n) => cfgPc = "error"
  /\ cfgPc = "constructed" => ReferencesResolved

\* The positions of the declarations that repeat the name of an earlier one.
RepeatedPhases ==
  {i \in DOMAIN commandLineJson.phases :
     \E j \in 1..(i - 1) : commandLineJson.phases[j].name = commandLineJson.phases[i].name}

RepeatedCommands ==
  {n \in DOMAIN commandLineJson.commands :
     \E m \in 1..(n - 1) : commandLineJson.commands[m].name = commandLineJson.commands[n].name}

Least(S) == CHOOSE x \in S : \A y \in S : x <= y

\* C23: duplicate names are rejected.  A configuration that declares two
\* phases with the same name, or two commands with the same name (of any
\* kinds), is not accepted.  When the phase declarations before the first
\* repetition have valid names the error is the duplicate-phase error and
\* names the repeated phase; when the command declarations before the first
\* repetition were all registered the error is the duplicate-command error
\* and names the repeated command.
C23_DuplicateNames ==
  cfgPc # "start" =>
    /\ RepeatedPhases # {} =>
         LET i == Least(RepeatedPhases) IN
           /\ cfgPc = "error"
           /\ (\A j \in 1..(i - 1) : MatchesPhaseNameRegexp(commandLineJson.phases[j].name))
                => /\ config.error.kind = "phase specified more than once"
                   /\ config.error.name = commandLineJson.phases[i].name
    /\ RepeatedCommands # {} =>
         LET n == Least(RepeatedCommands) IN
           /\ cfgPc = "error"
           /\ Len(config.commands) = n - 1
                => /\ config.error.kind = "command specified more than once"
                   /\ config.error.name = commandLineJson.commands[n].name

\* Two commands of different kinds with the same name: the second one was
\* rejected as a duplicate.
C23_Witness ==
  /\ cfgPc = "error"
  /\ config.error.kind = "command specified more than once"
  /\ Len(commandLineJson.commands) = 2
  /\ commandLineJson.commands[1].name = commandLineJson.commands[2].name
  /\ commandLineJson.commands[1].commandKind = GlobalCommandKind
  /\ commandLineJson.commands[2].commandKind = PhasedCommandKind

\* Two phases with the same name: the second one was rejected.
C23_WitnessPhases ==
  /\ cfgPc = "error"
  /\ config.error.kind = "phase specified more than once"
  /\ RepeatedPhases = {2}
  /\ config.error.name = commandLineJson.phases[2].name

\* The watch phases of a phased command of the instance.
WatchPhasesOf(command) == SeqRange(config.phaseSetObjects[command.watchPhases])

\* The phases a declaration names in watchOptions.watchPhases.
NamedWatchPhases(commandJson) ==
  IF commandJson.watchOptions = <<>> THEN {}
  ELSE {MapGet(config.phases, name) :
          name \in SeqRange(commandJson.watchOptions[1].watchPhases)}

\* C24: watchPhases is taken literally.  In an accepted configuration the
\* watchPhases of a declared phased command are exactly the phases its
\* watchOptions.watchPhases names (their dependencies are not added), and
\* none when it has no watchOptions; the watchPhases of a translated bulk
\* command (declared, or the default build) are its phases set when
\* watchForChanges is set and empty otherwise.
C24_WatchPhasesLiteral ==
  cfgPc = "constructed" =>
    /\ \A commandJson \in DeclaredCommands :
         commandJson.commandKind = PhasedCommandKind =>
           WatchPhasesOf(MapGet(config.commands, commandJson.name))
             = NamedWatchPhases(commandJson)
    /\ \A bulk \in BulkCommands :
         LET command == MapGet(config.commands, bulk.name) IN
           IF bulk.watchForChanges
             THEN /\ command.watchPhases = command.phases
                  /\ WatchPhasesOf(command) = PhasesOf(command)
                  /\ WatchPhasesOf(command) # {}
             ELSE WatchPhasesOf(command) = {}

\* A phased command watches "_phase:a" alone although "_phase:a" depends on
\* "_phase:b", which is among the phases of the command.
C24_Witness ==
  /\ cfgPc = "constructed"
  /\ \E commandJson \in DeclaredCommands :
       LET command == MapGet(config.commands, commandJson.name) IN
         /\ commandJson.commandKind = PhasedCommandKind
         /\ Cardinality(WatchPhasesOf(command)) = 1
         /\ \E phase \in WatchPhasesOf(command) :
              \E dependency \in SeqRange(config.phaseObjects[phase].dependencies.self) :
                dependency \in PhasesOf(command) \ WatchPhasesOf(command)

\* A declared bulk command with watchForChanges watches its synthetic phase,
\* another one without watchForChanges watches nothing.
C24_WitnessBulk ==
  /\ cfgPc = "constructed"
  /\ \E bulk \in BulkCommands \cap DeclaredCommands : bulk.watchForChanges
  /\ \E bulk \in BulkCommands \cap DeclaredCommands : ~bulk.watchForChanges

(***************************************************************************)
(* Properties of loadFromFileOrDefault                                     *)
(***************************************************************************)
\* The defaults that apply to a declaration named "build" or "rebuild".
DefaultsNamed(name) ==
  IF name = BuildCommandName THEN DefaultBuildCommandObject ELSE DefaultRebuildCommandObject

\* C25: build/rebuild default merge.  loadFromFileOrDefault replaces every
\* declared command named "build" or "rebuild" of kind bulk or phased by a
\* command each property of which has the declared value when the
\* declaration specifies the property and the value of the matching default
\* command otherwise; every command with another name and every global
\* command is left exactly as declared.
C25_DefaultMerge ==
  [][(cfgPc = "file" /\ IsParsed(commandLineJson) /\ HasCommands(commandLineJson)) =>
       /\ DOMAIN commandLineJson'.commands = DOMAIN commandLineJson.commands
       /\ \A i \in DOMAIN commandLineJson.commands :
            LET declared == commandLineJson.commands[i]
                merged == commandLineJson'.commands[i]
            IN IF /\ declared.name[1] \in {BuildCommandName, RebuildCommandName}
                  /\ declared.commandKind[1] \in {BulkCommandKind, PhasedCommandKind}
                 THEN \A property \in DOMAIN declared :
                        merged[property] =
                          IF declared[property] # <<>> THEN declared[property]
                          ELSE DefaultsNamed(declared.name[1])[property]
                 ELSE merged = declared]_vars

\* A phased "build" command that specifies its summary and not
\* enableParallelism was merged: the summary is the declared one and
\* enableParallelism comes from the default build command; a global command
\* was declared next to it.
C25_Witness ==
  /\ cfgPc = "constructed"
  /\ HasCommands(commandLineJson)
  /\ \E i \in DOMAIN commandLineJson.commands :
       /\ commandLineJson.commands[i].name = <<BuildCommandName>>
       /\ commandLineJson.commands[i].commandKind = <<PhasedCommandKind>>
       /\ commandLineJson.commands[i].summary = <<"repo summary">>
       /\ commandLineJson.commands[i].enableParallelism = <<TRUE>>
       /\ MapGet(config.commands, BuildCommandName).enableParallelism
  /\ \E i \in DOMAIN commandLineJson.commands :
       commandLineJson.commands[i].commandKind = <<GlobalCommandKind>>

(***************************************************************************)
(* Properties of the choice parameters                                     *)
(***************************************************************************)
AlternativeNames(parameter) ==
  {parameter.alternatives[k].name : k \in DOMAIN parameter.alternatives}

\* The parameter specifies a default value that is none of its alternatives.
DefaultIsNoAlternative(parameter) ==
  /\ parameter.defaultValue # <<>>
  /\ parameter.defaultValue[1] \notin AlternativeNames(parameter)

\* C26: choice parameter default validation.  A choice parameter whose
\* default value is not among its declared alternatives makes the
\* construction fail; a choice parameter with no default value, or whose
\* default value is among the alternatives, is not rejected for its default.
C26_ChoiceDefault ==
  cfgPc # "start" =>
    \A n \in DOMAIN commandLineJson.parameters :
      LET parameter == commandLineJson.parameters[n] IN
        parameter.parameterKind = "choice" =>
          IF DefaultIsNoAlternative(parameter)
            THEN cfgPc = "error"
            ELSE cfgPc = "error" =>
                   config.error.kind # "default value is not one of the alternatives"

\* The check at work on the non-empty default values: those outside the
\* alternatives are rejected with the error naming the default value,
\* whenever the parameters stage is reached.
C26_NonEmptyDefault ==
  ParametersStageReached =>
    \A n \in DOMAIN commandLineJson.parameters :
      LET parameter == commandLineJson.parameters[n] IN
        parameter.parameterKind = "choice" =>
          IF DefaultIsNoAlternative(parameter) /\ parameter.defaultValue[1] # <<>>
            THEN /\ cfgPc = "error"
                 /\ config.error.kind = "default value is not one of the alternatives"
                 /\ config.error.defaultValue = parameter.defaultValue[1]
            ELSE cfgPc = "error" =>
                   config.error.kind # "default value is not one of the alternatives"

\* A choice parameter whose default value is the empty string, which is
\* none of the alternatives "x" and "y", was accepted.
C26_WitnessEmptyDefault ==
  /\ cfgPc = "constructed"
  /\ Len(commandLineJson.parameters) = 1
  /\ commandLineJson.parameters[1].parameterKind = "choice"
  /\ commandLineJson.parameters[1].defaultValue = <<<<>>>>

(***************************************************************************)
(* Properties of the phase name validation                                 *)
(***************************************************************************)
\* The name of the declared phase and what follows the prefix in it.
DeclaredName == commandLineJson.phases[1].name

HasPrefix(name) ==
  /\ Len(name) >= Len(PhaseNamePrefix)
  /\ SubSeq(name, 1, Len(PhaseNamePrefix)) = PhaseNamePrefix

AfterPrefix(name) == SubSeq(name, Len(PhaseNamePrefix) + 1, Len(name))

\* The hyphens of rest cut it into groups; a group is the stretch between
\* two cuts (the two ends of rest are cuts as well).
Cuts(rest) == {0, Len(rest) + 1} \cup {i \in DOMAIN rest : rest[i] = "-"}

\* rest is a lowercase letter followed by lowercase letters and digits in
\* non-empty groups separated by single hyphens.
IsGroupedName(rest) ==
  /\ rest # <<>>
  /\ rest[1] \in LowercaseLetters
  /\ \A i \in DOMAIN rest : rest[i] \in LowercaseLetters \cup Digits \cup {"-"}
  /\ \A i, j \in Cuts(rest) : i # j => i + 1 # j

\* C27: phase name validation.  A phase name is accepted only if it is the
\* required prefix followed by a lowercase letter and then lowercase letters
\* and digits in hyphen-separated non-empty groups, and every such name is
\* accepted; a name without the prefix, one that starts with a digit or a
\* hyphen after the prefix, one with an uppercase letter, one with two
\* consecutive hyphens and one that ends in a hyphen are rejected, with the
\* error that names the phase.
C27_PhaseNameValidation ==
  cfgPc # "start" =>
    LET name == DeclaredName
        rest == AfterPrefix(name)
        rejected == /\ cfgPc = "error"
                    /\ config.error.kind = "not a valid phase name"
                    /\ config.error.name = name
    IN /\ cfgPc = "constructed" <=> HasPrefix(name) /\ IsGroupedName(rest)
       /\ cfgPc = "error" => rejected
       /\ ~HasPrefix(name) => rejected
       /\ HasPrefix(name) /\ rest # <<>> /\ rest[1] \in Digits \cup {"-"} => rejected
       /\ (\E i \in DOMAIN name : name[i] = "A") => rejected
       /\ (\E i \in DOMAIN name : name[i] = "-" /\ i < Len(name) /\ name[i + 1] = "-")
            => rejected
       /\ name # <<>> /\ name[Len(name)] = "-" => rejected

\* The name "_phase:a-0z", with two groups, was accepted.
C27_Witness ==
  /\ cfgPc = "constructed"
  /\ DeclaredName = PhaseNamePrefix \o <<"a", "-", "0", "z">>
  /\ MapHas(config.phases, DeclaredName)

\* The name "_phase:a--a" was rejected, and so was "_phase:0a".
C27_WitnessTwoHyphens ==
  /\ cfgPc = "error"
  /\ DeclaredName = PhaseNamePrefix \o <<"a", "-", "-", "a">>

C27_WitnessDigit ==
  /\ cfgPc = "error"
  /\ DeclaredName = PhaseNamePrefix \o <<"0", "a">>

(***************************************************************************)
(* Properties of a run of "build" or "rebuild"                             *)
(***************************************************************************)
\* The operations of the graph that belong to project p.
OperationsOfProject(p) == {op \in operations : op.project = p}

\* No runner was invoked twice; once the run has returned, the verdict is
\* success, the graph has exactly one operation per project, each was run
\* exactly once and ended in a non-failure terminal status, and nothing
\* else was run.
BuildRunOutcome ==
  /\ \A o \in Ops : runs[o] <= 1
  /\ verdict \notin {"idle", "none"} =>
       /\ verdict = "success"
       /\ Cardinality(operations) = Cardinality(Projects)
       /\ \A p \in Projects :
            /\ Cardinality(OperationsOfProject(p)) = 1
            /\ runs[p] = 1
            /\ p \in invoked
            /\ status[p] \in NonBlockingTerminal
       /\ \A o \in Ops \ Projects : runs[o] = 0

\* C28: end-to-end build/rebuild.  For "build" and "rebuild" in a repository
\* where no runner fails, the run has exactly one operation per project,
\* runs none twice and omits none, each ends in a non-failure terminal
\* status, and the run eventually returns success.
C28_EndToEndBuild == []BuildRunOutcome /\ <>(verdict = "success")

\* A run of the default "rebuild" command over two projects, the second
\* depending on the first, has returned success after one run per project.
C28_Witness ==
  /\ verdict = "success"
  /\ commandLineJson.commands = <<>>
  /\ \A p \in Projects : runs[p] = 1 /\ status[p] = "Success"
  /\ \E p \in Projects : projectDependencies[p] # {} /\ deps[p] = projectDependencies[p]
  /\ \A op \in operations : config.phaseObjects[op.phase].name = BuildCommandName
  /\ \E command \in Commands :
       /\ command.name = RebuildCommandName
       /\ PhasesOf(command) = {op.phase : op \in operations}

(***************************************************************************)
(* Properties of the errors of Async.forEachAsync and of Async.mapAsync    *)
(***************************************************************************)
\* Some callback has thrown synchronously or its promise has rejected.
ErrorOccurred == \E i \in Items : cb[i] \in {"thrown", "caught", "rejected"}

\* C29: forEachAsync stops at the first error.  Once a callback has thrown
\* synchronously or rejected, no callback is started for any further item,
\* an item whose iterator.next() was already awaited included, and the
\* overall promise is never resolved.
C29_ErrorStopsLoop ==
  [][ErrorOccurred =>
       /\ \A i \in Items : cb[i] = "notStarted" => cb'[i] = "notStarted"
       /\ resolveCalls' = 0]_vars

\* C30: mapAsync keeps the order of the input.  When every callback resolves
\* and mapAsync has returned, the result array has one entry per input item,
\* and entry i is what the callback produced for the i-th item (array indices
\* count from 0), whatever the order of completion and the concurrency.
C30_MapAsyncOrdering ==
  mapAsyncOutcome = "returned" =>
    /\ DOMAIN result = 0..(iterableLen - 1)
    /\ \A i \in 1..iterableLen : result[i - 1] = ResultFor(i)
    /\ \A i \in 1..iterableLen : cb[i] = "fulfilled"

\* mapAsync has returned the entries of three items whose callbacks were
\* fulfilled in the order 3, 1, 2.
C30_Witness ==
  /\ mapAsyncOutcome = "returned"
  /\ iterableLen = 3
  /\ completed = <<3, 1, 2>>
  /\ result[0] = ResultFor(1)

(***************************************************************************)
(* Properties of CommonVersionsConfiguration                               *)
(***************************************************************************)
TableKeys(map) == {map[i].key : i \in DOMAIN map}

TablesAreDisjoint ==
  TableKeys(preferredVersions) \cap TableKeys(xstitchPreferredVersions) = {}

OtherPreferredTable(source) ==
  IF source = PreferredVersionsTable THEN xstitchPreferredVersions ELSE preferredVersions

\* The step is a set on one of the two tables of a key that the other table holds.
SetsKeyOfOtherTable ==
  /\ cvLast'.op = "set"
  /\ cvLast'.source \in {PreferredVersionsTable, XstitchPreferredVersionsTable}
  /\ MapHas(OtherPreferredTable(cvLast'.source), cvLast'.key)

\* C31: after loading and after any sequence of operations on the tables, no
\* dependency name is a key of both preferredVersions and
\* xstitchPreferredVersions; a set of a key that the other table holds throws
\* and leaves both tables as they were.
C31_TableDisjointness ==
  /\ [](cvPc \in {"loaded", "error"} => TablesAreDisjoint)
  /\ [][SetsKeyOfOtherTable =>
          /\ cvLast'.threw
          /\ preferredVersions' = preferredVersions
          /\ xstitchPreferredVersions' = xstitchPreferredVersions]_vars

\* A set on xstitchPreferredVersions of a name that preferredVersions holds
\* has just thrown, and both tables hold an entry.
C31_Witness ==
  /\ cvPc = "loaded"
  /\ cvLast.op = "set"
  /\ cvLast.source = XstitchPreferredVersionsTable
  /\ cvLast.threw
  /\ MapHas(preferredVersions, cvLast.key)
  /\ xstitchPreferredVersions # <<>>

\* Loading refused a file that has one name in both tables.
C31_WitnessLoad ==
  /\ cvPc = "error"
  /\ cvFile # <<>>
  /\ cvFile[1].preferredVersions # <<>>
  /\ preferredVersions # <<>>
  /\ xstitchPreferredVersions = <<>>

\* C39: save() writes the file and returns true only if an entry was set
\* through the public tables since the instance was loaded or last saved:
\* right after loadFromFile of an existing file it returns false, and of two
\* consecutive calls of save() at most one returns true.
C39_SaveOnlyWhenModified ==
  [][cvLast'.op = "save" =>
       /\ cvLast'.returned => cvLast.setSince
       /\ cvFile' # cvFile => cvLast'.returned
       /\ cvLast.op = "load" /\ cvFile # <<>> => ~cvLast'.returned
       /\ cvLast.op = "save" /\ cvLast.returned => ~cvLast'.returned]_vars

(***************************************************************************)
(* Properties of the phase registry and of the phase expansion             *)
(***************************************************************************)
\* The registry entry for the name of a phase object is that object.
IsRegistered(phase) == MapGet(config.phases, config.phaseObjects[phase].name) = phase

DependenciesOfPhases(S) == S \cup UNION {SelfOf(phase) \cup UpstreamOf(phase) : phase \in S}

\* The phases reachable from the phases of S over self and upstream dependencies.
RECURSIVE ReachablePhases(_)
ReachablePhases(S) ==
  IF DependenciesOfPhases(S) = S THEN S ELSE ReachablePhases(DependenciesOfPhases(S))

\* C32: phase registry consistency.  After a successful construction, every
\* phase in the phases or watchPhases of a command, and every phase
\* reachable from one through dependencies, is the registry entry for its
\* name; the synthetic phase of a bulk command or of the default build has
\* not replaced a phase registered under the same name.
C32_RegistryConsistency ==
  cfgPc = "constructed" =>
    /\ \A command \in Commands :
         command.commandKind = PhasedCommandKind =>
           \A phase \in ReachablePhases(PhasesOf(command) \cup WatchPhasesOf(command)) :
             IsRegistered(phase)
    /\ \A phase \in DOMAIN config.phaseObjects : IsRegistered(phase)


IsRepetitionFree(set) == \A i, j \in DOMAIN set : set[i] = set[j] => i = j

\* C33: phase expansion is minimal and terminates.  In an accepted
\* configuration, cyclic upstream references included, the phases of a
\* phased command are phases reachable from the phases its declaration
\* names over self and upstream dependencies, and no unrelated registered
\* phase is among them; the Set the loop iterates holds each phase once, so
\* the loop makes at most as many iterations as there are phases.
C33_MinimalExpansion ==
  cfgPc \in {"constructed", "graph"} =>
       \A n \in DOMAIN commandLineJson.commands :
         LET commandJson == commandLineJson.commands[n] IN
           commandJson.commandKind = PhasedCommandKind =>
             LET commandPhases ==
                   config.phaseSetObjects[MapGet(config.commands, commandJson.name).phases]
             IN /\ SeqRange(commandPhases) \subseteq ReachablePhases(NamedPhases(commandJson))
                /\ IsRepetitionFree(commandPhases)
                /\ Len(commandPhases) <= Len(config.phaseObjects)

\* An accepted phased command names one phase, which depends on itself
\* upstream, and the other registered phase is not among its phases.
C33_Witness ==
  /\ cfgPc = "constructed"
  /\ \E n \in DOMAIN commandLineJson.commands :
       LET commandJson == commandLineJson.commands[n] IN
         /\ commandJson.commandKind = PhasedCommandKind
         /\ Len(commandJson.phases) = 1
         /\ \E phase, other \in DOMAIN config.phaseObjects :
              /\ phase # other
              /\ ~config.phaseObjects[other].isSynthetic
              /\ phase \in UpstreamOf(phase)
              /\ PhasesOf(MapGet(config.commands, commandJson.name)) = {phase}

\* An accepted phased command names one of two phases that depend on each
\* other upstream and holds both.
C33_WitnessCycle ==
  /\ cfgPc = "constructed"
  /\ \E n \in DOMAIN commandLineJson.commands :
       LET commandJson == commandLineJson.commands[n] IN
         /\ commandJson.commandKind = PhasedCommandKind
         /\ Len(commandJson.phases) = 1
         /\ \E x, y \in PhasesOf(MapGet(config.commands, commandJson.name)) :
              x # y /\ y \in UpstreamOf(x) /\ x \in UpstreamOf(y)


(***************************************************************************)
(* Parameters of the build and rebuild commands                            *)
(***************************************************************************)
\* The file declares the command as a bulk command, or it does not declare
\* it and the defaults are enabled.
IsBulkDerived(name) ==
  \/ \E n \in DOMAIN commandLineJson.commands :
       /\ commandLineJson.commands[n].name = name
       /\ commandLineJson.commands[n].commandKind = BulkCommandKind
  \/ /\ \A n \in DOMAIN commandLineJson.commands : commandLineJson.commands[n].name # name
     /\ ~options.doNotIncludeDefaultBuildCommands

\* The parameter is associated with that one command and with no phase.
IsAssociatedOnlyWith(parameter, name) ==
  /\ parameter.associatedCommands = <<name>>
  /\ parameter.associatedPhases = <<>>

\* C34: a parameter whose only associated command is "build" or "rebuild"
\* and that declares no associated phase passes validation when the command
\* is bulk-derived (declared as bulk, or synthesized by default, the default
\* rebuild included), and it is among the associatedParameters of the command.
C34_BuildParameterAccepted ==
  cfgPc \in {"constructed", "error"} =>
    \A n \in DOMAIN commandLineJson.parameters :
      \A name \in {BuildCommandName, RebuildCommandName} :
        IsAssociatedOnlyWith(commandLineJson.parameters[n], name) /\ IsBulkDerived(name) =>
          /\ config.error # NoError => config.error.kind \notin ParameterErrorKinds
          /\ config.error = NoError =>
               n \in SeqRange(config.parameterSetObjects[
                                MapGet(config.commands, name).associatedParameters])


(***************************************************************************)
(* Completion of Async.forEachAsync                                        *)
(***************************************************************************)
\* The iterator has handed out every item and reported that it is done, and
\* no call of iterator.next() is still awaited.
IteratorIsExhausted ==
  /\ iteratorIsComplete
  /\ iterPos = iterableLen
  /\ pendingNext = <<>>

\* C35: completion safety.  The promise of forEachAsync is resolved only when
\* the iterator is exhausted and every callback that was started has been
\* fulfilled; resolve() is called at most once, and never on a promise that
\* reject() was called on, nor reject() after resolve().
C35_CompletionSafety ==
  /\ resolveCalls <= 1
  /\ ~(resolveCalls > 0 /\ rejectCalls > 0)
  /\ resolveCalls > 0 =>
       /\ IteratorIsExhausted
       /\ operationsInProgress = 0
       /\ \A i \in 1..iterableLen : cb[i] = "fulfilled"

\* The promise was resolved after three callbacks under concurrency 2, the
\* first callback having been fulfilled after the second one, while a call
\* of iterator.next() was awaited.
C35_Witness ==
  /\ resolveCalls = 1
  /\ iterableLen = 3
  /\ optConcurrency = <<2>>
  /\ completed = <<2, 1, 3>>


\* C36: termination.  When every callback is fulfilled in the end, for every
\* iterable of finitely many items (none included) and every concurrency
\* option, the promise of forEachAsync is resolved in the end, and by then
\* the callback of every item has been started exactly once, item i with
\* arrayIndex i - 1; no run stops before that.
C36_Termination ==
  /\ <>(resolveCalls = 1)
  /\ [](resolveCalls = 1 =>
          /\ arrayIndex = iterableLen
          /\ \A i \in 1..iterableLen : cb[i] = "fulfilled" /\ cbIndex[i] = i - 1)

\* The promise was resolved after three items under concurrency 1.
C36_Witness ==
  /\ resolveCalls = 1
  /\ iterableLen = 3
  /\ optConcurrency = <<1>>
  /\ completed = <<1, 2, 3>>

\* The promise was resolved for an iterable without items and concurrency 0.
C36_WitnessEmpty ==
  /\ resolveCalls = 1
  /\ iterableLen = 0
  /\ optConcurrency = <<0>>
  /\ arrayIndex = 0


(***************************************************************************)
(* The parser of git status                                                *)
(***************************************************************************)
IsUnmergedRecord(r) == r.fields[1] = <<"u">>

UnmergedStates ==
  <<"mode", "changeType", "submoduleState",
    "stage1FileMode", "stage2FileMode", "stage3FileMode", "worktreeFileMode",
    "stage1ObjectName", "stage2ObjectName", "stage3ObjectName", "path">>

\* The entry the fields of an unmerged record stand for
IsUnmergedEntryOf(entry, r) ==
  /\ MapHas(entry, "kind") /\ MapGet(entry, "kind") = "unmerged"
  /\ \A name \in {"stage1FileMode", "stage2FileMode", "stage3FileMode",
                  "stage1ObjectName", "stage2ObjectName", "stage3ObjectName"} :
       MapHas(entry, name)
  /\ MapGet(entry, "stage1FileMode") = r.fields[4]
  /\ MapGet(entry, "stage2FileMode") = r.fields[5]
  /\ MapGet(entry, "stage3FileMode") = r.fields[6]
  /\ MapGet(entry, "stage1ObjectName") = r.fields[8]
  /\ MapGet(entry, "stage2ObjectName") = r.fields[9]
  /\ MapGet(entry, "stage3ObjectName") = r.fields[10]
  /\ MapGet(entry, "path") = r.paths[1]

GitStatusEnded == gitPc \in {"done", "returned", "error"}

\* The record the parser is in, or was in last
CurrentRecord == Len(visitedStates)

\* C37: unmerged entries.  Whenever the parser yields the entry of a record
\* whose mode field is "u", the loop went through mode, changeType,
\* submoduleState, stage1FileMode, stage2FileMode, stage3FileMode,
\* worktreeFileMode, stage1ObjectName, stage2ObjectName, stage3ObjectName
\* and path for it, and the entry is of kind "unmerged" with the stage fields
\* of the record and the path of the record; the parser throws no error in
\* such a record.
C37_UnmergedEntries ==
  (/\ gitPc \in {"yielded", "error"}
   /\ CurrentRecord \in DOMAIN statusRecords
   /\ IsUnmergedRecord(statusRecords[CurrentRecord])) =>
     /\ gitPc = "yielded"
     /\ Len(yielded) = CurrentRecord
     /\ visitedStates[CurrentRecord] = UnmergedStates
     /\ IsUnmergedEntryOf(yielded[CurrentRecord], statusRecords[CurrentRecord])

HasOneEntryPerRecord ==
  /\ gitError = NoError
  /\ state = "undefined"
  /\ pos = Len(output)
  /\ Len(yielded) = Len(statusRecords)
  /\ \A k \in DOMAIN statusRecords :
       MapGet(yielded[k], "path") = statusRecords[k].paths[1]

\* C38: termination and empty input.  The parser of a well-formed output
\* throws no error, and when the method that iterates it has taken every
\* entry the parser has ended with state undefined and pos at the end,
\* having yielded one entry per record; for the empty output it ends having
\* yielded no entry, and hasUncommittedChanges() and hasUnstagedChanges()
\* return false.
C38_TerminationAndEmptyInput ==
  /\ gitPc # "error"
  /\ gitPc = "done" => HasOneEntryPerRecord
  /\ (output = <<>> /\ GitStatusEnded) =>
       /\ gitPc = "done"
       /\ yielded = <<>>
       /\ gitConsumer \in {"hasUncommittedChanges", "hasUnstagedChanges"} =>
            gitResult = <<FALSE>>
====
